---- MODULE Spec2Model ----
(***************************************************************************)
(* Model of the json-logic-schema conversion engine:                       *)
(*   - rule-logic (JsonLogic) -> doc-schema (JSON Schema)   convert,       *)
(*     wrapSchema                                                          *)
(*   - doc-schema -> rule-logic                              convertSchema *)
(*   - conditional doc-schema -> flat rules     transformJsonSchemaToRules *)
(*                                                                         *)
(* A JSON value is a pair <<kind, payload>>:                               *)
(*   <<"undef",0>>  <<"null",0>>  <<"bool",b>>  <<"num",n>>  <<"str",s>>   *)
(*   <<"arr", <<v1,...,vn>> >>                                             *)
(*   <<"obj", << <<k1,v1>>, ..., <<kn,vn>> >> >>   (keys in insertion      *)
(*                                                  order, no duplicates)  *)
(* A thrown JavaScript exception is <<"err", <<kind, detail>> >>.          *)
(* Strings are TLA+ strings; the string functions below work on their      *)
(* characters.  Numbers are integers.                                      *)
(***************************************************************************)
EXTENDS Integers, Sequences, FiniteSets, TLC

VARIABLES doc, kind, orig, trail

vars == <<doc, kind, orig, trail>>

-----------------------------------------------------------------------------
(* JSON values *)

Undef == <<"undef", 0>>
JNull == <<"null", 0>>
JTrue == <<"bool", TRUE>>
JFalse == <<"bool", FALSE>>
JBool(b) == <<"bool", b>>
JNum(n) == <<"num", n>>
JStr(s) == <<"str", s>>
JArr(a) == <<"arr", a>>
JObj(o) == <<"obj", o>>
Err(k, d) == <<"err", <<k, d>> >>

IsUndef(j) == j[1] = "undef"
IsNull(j) == j[1] = "null"
IsBool(j) == j[1] = "bool"
IsNum(j) == j[1] = "num"
IsStr(j) == j[1] = "str"
IsArr(j) == j[1] = "arr"
IsObj(j) == j[1] = "obj"
IsErr(j) == j[1] = "err"

\* typeof j === "object": objects, arrays and null.
TypeofObject(j) == j[1] \in {"obj", "arr", "null"}

\* JavaScript truthiness of a JSON value.
Truthy(j) ==
  CASE IsUndef(j) -> FALSE
    [] IsNull(j) -> FALSE
    [] IsBool(j) -> j[2]
    [] IsNum(j) -> j[2] # 0
    [] IsStr(j) -> j[2] # ""
    [] OTHER -> TRUE

\* The members of an object, as a sequence of <<key, value>>.
Members(j) == j[2]

\* key in obj
Has(j, k) == IsObj(j) /\ \E i \in 1..Len(j[2]) : j[2][i][1] = k

\* obj[key]: undefined when absent (and for arrays, which carry no such keys).
Get(j, k) ==
  IF Has(j, k)
    THEN j[2][CHOOSE i \in 1..Len(j[2]) : j[2][i][1] = k][2]
    ELSE Undef

\* The first error of a sequence of results, in evaluation order.
HasErr(s) == \E i \in 1..Len(s) : IsErr(s[i])
FirstErr(s) == s[CHOOSE i \in 1..Len(s) : IsErr(s[i]) /\ \A h \in 1..(i-1) : ~IsErr(s[h])]

-----------------------------------------------------------------------------
(* String functions *)

StartsWith(s, p) == Len(p) <= Len(s) /\ SubSeq(s, 1, Len(p)) = p
EndsWith(s, p) == Len(p) <= Len(s) /\ SubSeq(s, Len(s) - Len(p) + 1, Len(s)) = p

\* The first index >= from at which p occurs in s, or 0.
RECURSIVE IndexFrom(_, _, _)
IndexFrom(s, p, from) ==
  IF from + Len(p) - 1 > Len(s) THEN 0
  ELSE IF SubSeq(s, from, from + Len(p) - 1) = p THEN from
  ELSE IndexFrom(s, p, from + 1)

Includes(s, p) == IndexFrom(s, p, 1) # 0

\* String.prototype.replace(p, r) with a string pattern: the first occurrence.
Replace(s, p, r) ==
  LET i == IndexFrom(s, p, 1)
  IN IF i = 0 THEN s
     ELSE SubSeq(s, 1, i - 1) \o r \o SubSeq(s, i + Len(p), Len(s))

\* String.prototype.replaceAll(p, r): every occurrence, left to right,
\* non-overlapping (p non-empty, r without "$").
RECURSIVE ReplaceAll(_, _, _)
ReplaceAll(s, p, r) ==
  LET i == IndexFrom(s, p, 1)
  IN IF i = 0 THEN s
     ELSE SubSeq(s, 1, i - 1) \o r \o ReplaceAll(SubSeq(s, i + Len(p), Len(s)), p, r)

\* String.prototype.split(sep), sep non-empty.
RECURSIVE Split(_, _)
Split(s, sep) ==
  LET i == IndexFrom(s, sep, 1)
  IN IF i = 0 THEN <<s>>
     ELSE <<SubSeq(s, 1, i - 1)>> \o Split(SubSeq(s, i + Len(sep), Len(s)), sep)

\* Array.prototype.join(sep) on an array of strings.
RECURSIVE Join(_, _)
Join(a, sep) ==
  IF Len(a) = 0 THEN ""
  ELSE IF Len(a) = 1 THEN a[1]
  ELSE a[1] \o sep \o Join(Tail(a), sep)

Digit(d) == SubSeq("0123456789", d + 1, d + 1)

\* Number.prototype.toString for integers.
RECURSIVE NatToString(_)
NatToString(n) == IF n < 10 THEN Digit(n) ELSE NatToString(n \div 10) \o Digit(n % 10)
NumToString(n) == IF n < 0 THEN "-" \o NatToString(0 - n) ELSE NatToString(n)

-----------------------------------------------------------------------------
(* Shared JavaScript semantics used by the converters *)

\* {k: v}
O1(k, v) == JObj(<< <<k, v>> >>)

\* `const [a, b, c] = values` needs an iterable: an array or a string.
Iterable(values) == IsArr(values) \/ IsStr(values)

\* The i-th destructured element (undefined past the end); a string yields
\* its characters.
At(values, i) ==
  IF i > Len(values[2]) THEN Undef
  ELSE IF IsStr(values) THEN JStr(SubSeq(values[2], i, i))
  ELSE values[2][i]

\* values.length
LengthOf(values) == IF Iterable(values) THEN Len(values[2]) ELSE -1

NotIterable == Err("TypeError", "values is not iterable")
InOnNull == Err("TypeError", "cannot use 'in' operator on null")
NotAFunction(name) == Err("TypeError", name \o " is not a function")
NullProperty == Err("TypeError", "cannot read properties of null or undefined")

\* a === b on parsed JSON: primitives by value, objects and arrays by
\* identity (two parsed values are never the same object).
StrictEquals(a, b) ==
  /\ a[1] = b[1]
  /\ a[1] \in {"undef", "null", "bool", "num", "str"}
  /\ a[2] = b[2]

\* Object.prototype.toString / Array.prototype.toString etc. as used by
\* `x.toString()` and template literals.
RECURSIVE JsToString(_)
JsToString(j) ==
  CASE IsStr(j) -> j[2]
    [] IsNum(j) -> NumToString(j[2])
    [] IsBool(j) -> IF j[2] THEN "true" ELSE "false"
    [] IsNull(j) -> "null"
    [] IsUndef(j) -> "undefined"
    [] IsArr(j) ->
         Join([i \in 1..Len(j[2]) |->
                 IF IsNull(j[2][i]) \/ IsUndef(j[2][i]) THEN "" ELSE JsToString(j[2][i])], ",")
    [] OTHER -> "[object Object]"

\* Object.keys(x)[0] for an object, array or primitive wrapper: undefined
\* when x has no own enumerable key.
FirstKey(j) ==
  CASE IsObj(j) -> IF Len(j[2]) = 0 THEN Undef ELSE JStr(j[2][1][1])
    [] IsArr(j) -> IF Len(j[2]) = 0 THEN Undef ELSE JStr("0")
    [] IsStr(j) -> IF j[2] = "" THEN Undef ELSE JStr("0")
    [] OTHER -> Undef

\* x[key] for the key FirstKey returned.
Prop(j, key) ==
  CASE IsUndef(key) -> Undef
    [] IsObj(j) -> Get(j, key[2])
    [] IsArr(j) -> At(j, 1)
    [] IsStr(j) -> At(j, 1)
    [] OTHER -> Undef

-----------------------------------------------------------------------------
(* rule-logic -> doc-schema: the leaf converters *)

\* isVar throws on null ("var" in null); isVarThrows is that case.
isVarThrows(value) == IsNull(value)
isVar(value) == IsObj(value) /\ Has(value, "var")

getVarPath(varObj) ==
  LET v == Get(varObj, "var")
  IN IF IsStr(v) THEN v[2]
     ELSE IF IsNull(v) \/ IsUndef(v) THEN ""
     ELSE JsToString(v)

RegExpChars == {"\\", "^", "$", ".", "*", "+", "?", "(", ")", "[", "]", "{", "}", "|"}

RECURSIVE EscapeChars(_)
EscapeChars(s) ==
  IF s = "" THEN ""
  ELSE LET c == SubSeq(s, 1, 1)
       IN (IF c \in RegExpChars THEN "\\" \o c ELSE c) \o EscapeChars(SubSeq(s, 2, Len(s)))

\* lodash escapeRegExp: toString(value) (null and undefined give ""), then
\* every RegExp special character escaped with a backslash.
escapeRegExp(value) ==
  IF IsNull(value) \/ IsUndef(value) THEN "" ELSE EscapeChars(JsToString(value))

\* The shape shared by every leaf converter: the leaf under
\* properties[getVarPath(x)] when x is a var, the bare fragment otherwise.
OnField(x, leaf, bare) ==
  IF isVarThrows(x) THEN InOnNull
  ELSE IF isVar(x) THEN O1("properties", O1(getVarPath(x), leaf))
  ELSE bare

StringLeaf(pattern) == JObj(<< <<"type", JStr("string")>>, <<"pattern", JStr(pattern)>> >>)

convertStartsWith(values) ==
  IF ~Iterable(values) THEN NotIterable
  ELSE LET str == At(values, 1)
           prefix == At(values, 2)
           leaf == StringLeaf("^" \o escapeRegExp(prefix))
       IN OnField(str, leaf, leaf)

convertEndsWith(values) ==
  IF ~Iterable(values) THEN NotIterable
  ELSE LET str == At(values, 1)
           suffix == At(values, 2)
           leaf == StringLeaf(escapeRegExp(suffix) \o "$")
       IN OnField(str, leaf, leaf)

convertVar(path) ==
  IF IsStr(path) /\ Includes(path[2], ".")
    THEN O1("$ref", JStr("#/properties/" \o Join(Split(path[2], "."), "/properties/")))
  ELSE IF IsStr(path) THEN O1("$ref", JStr("#/properties/" \o path[2]))
  ELSE Err("Error", "Invalid path")

convertEquality(values) ==
  IF ~Iterable(values) THEN NotIterable
  ELSE LET left == At(values, 1)
           right == At(values, 2)
       IN OnField(left, O1("const", right), O1("const", JBool(StrictEquals(left, right))))

convertNotEqual(values) ==
  IF ~Iterable(values) THEN NotIterable
  ELSE LET left == At(values, 1)
           right == At(values, 2)
       IN OnField(left, O1("not", O1("const", right)),
                  O1("not", O1("const", JBool(StrictEquals(left, right)))))

convertStrictEquality(values) == convertEquality(values)

NumberLeaf1(k, v) == JObj(<< <<"type", JStr("number")>>, <<k, v>> >>)
NumberLeaf2(min, max) ==
  JObj(<< <<"type", JStr("number")>>, <<"minimum", min>>, <<"maximum", max>> >>)

convertGreaterThan(values) ==
  IF ~Iterable(values) THEN NotIterable
  ELSE LET left == At(values, 1)
           right == At(values, 2)
           leaf == NumberLeaf1("exclusiveMinimum", right)
       IN OnField(left, leaf, leaf)

\* A faulty variant of convertGreaterThanEqual: the two-argument form
\* emits the exclusive bound.
convertGreaterThanEqual_Exclusive(values) ==
  IF LengthOf(values) = 3
    THEN LET leaf == NumberLeaf2(At(values, 1), At(values, 3))
         IN OnField(At(values, 2), leaf, leaf)
  ELSE IF ~Iterable(values) THEN NotIterable
  ELSE LET leaf == NumberLeaf1("exclusiveMinimum", At(values, 2))
       IN OnField(At(values, 1), leaf, leaf)

convertGreaterThanEqual(values) ==
  IF LengthOf(values) = 3
    THEN LET min == At(values, 1)
             value == At(values, 2)
             max == At(values, 3)
             leaf == NumberLeaf2(min, max)
         IN OnField(value, leaf, leaf)
  ELSE IF ~Iterable(values) THEN NotIterable
  ELSE LET left == At(values, 1)
           right == At(values, 2)
           leaf == NumberLeaf1("minimum", right)
       IN OnField(left, leaf, leaf)

convertLessThan(values) ==
  IF ~Iterable(values) THEN NotIterable
  ELSE LET left == At(values, 1)
           right == At(values, 2)
           leaf == NumberLeaf1("exclusiveMaximum", right)
       IN OnField(left, leaf, leaf)

IsDigits(s) == \A i \in 1..Len(s) : SubSeq(s, i, i) \in {Digit(d) : d \in 0..9}

RECURSIVE DigitsToNat(_)
DigitsToNat(s) ==
  IF s = "" THEN 0
  ELSE 10 * DigitsToNat(SubSeq(s, 1, Len(s) - 1))
       + (CHOOSE d \in 0..9 : Digit(d) = SubSeq(s, Len(s), Len(s)))

\* !isNaN(Date.parse(s)) for the date-only ISO form YYYY-MM-DD, the one
\* format whose parsing ECMAScript fixes; other strings are taken not to
\* parse (the inputs carry no string whose parse is implementation-defined).
DateParses(s) ==
  /\ Len(s) = 10
  /\ SubSeq(s, 5, 5) = "-" /\ SubSeq(s, 8, 8) = "-"
  /\ IsDigits(SubSeq(s, 1, 4)) /\ IsDigits(SubSeq(s, 6, 7)) /\ IsDigits(SubSeq(s, 9, 10))
  /\ DigitsToNat(SubSeq(s, 6, 7)) \in 1..12
  /\ DigitsToNat(SubSeq(s, 9, 10)) \in 1..31

\* A faulty variant of StringRangeLeaf: every string range is hinted as a
\* date.
StringRangeLeaf_AlwaysDate(isDate, min, max) ==
  JObj(<< <<"type", JStr("string")>>, <<"format", JStr("date")>>,
          <<"minimum", min>>, <<"maximum", max>> >>)

StringRangeLeaf(isDate, min, max) ==
  JObj(<< <<"type", JStr("string")>> >>
       \o (IF isDate THEN << <<"format", JStr("date")>> >> ELSE <<>>)
       \o << <<"minimum", min>>, <<"maximum", max>> >>)

\* A faulty variant of convertLessThanEqual: the 3-element form reads its
\* bounds as [max, value, min].
convertLessThanEqual_BoundsSwapped(values) ==
  IF LengthOf(values) = 3
    THEN LET leaf == StringRangeLeaf(IsStr(At(values, 1)) /\ DateParses(At(values, 1)[2]),
                                     At(values, 3), At(values, 1))
         IN OnField(At(values, 2), leaf, leaf)
  ELSE IF ~Iterable(values) THEN NotIterable
  ELSE LET leaf == NumberLeaf1("maximum", At(values, 2))
       IN OnField(At(values, 1), leaf, leaf)

convertLessThanEqual(values) ==
  IF LengthOf(values) = 3
    THEN LET min == At(values, 1)
             value == At(values, 2)
             max == At(values, 3)
             isDate == IsStr(min) /\ DateParses(min[2])
             leaf == StringRangeLeaf(isDate, min, max)
         IN OnField(value, leaf, leaf)
  ELSE IF ~Iterable(values) THEN NotIterable
  ELSE LET left == At(values, 1)
           right == At(values, 2)
           leaf == NumberLeaf1("maximum", right)
       IN OnField(left, leaf, leaf)

convertBetween(values) ==
  IF LengthOf(values) = 3
    THEN LET min == At(values, 1)
             value == At(values, 2)
             max == At(values, 3)
             leaf == NumberLeaf2(min, max)
         IN OnField(value, leaf, leaf)
  ELSE IF ~Iterable(values) THEN NotIterable
  ELSE LET left == At(values, 1)
           right == At(values, 2)
           leaf == NumberLeaf1("minimum", right)
       IN OnField(left, leaf, leaf)

convertIn(values) ==
  IF ~Iterable(values) THEN NotIterable
  ELSE LET item == At(values, 1)
           list == At(values, 2)
           leaf == O1("enum", list)
       IN OnField(item, leaf, leaf)

convertStrictNotEqual(values) == convertNotEqual(values)

-----------------------------------------------------------------------------
(* rule-logic -> doc-schema: convert and wrapSchema *)

\* react-querybuilder's isValidValue: a non-empty string, a number that is
\* not NaN, or any value that is neither a string nor a number.
isValidValue(value) ==
  IF IsStr(value) THEN value[2] # "" ELSE TRUE

UnsupportedOperator(operator) == Err("Error", "Unsupported operator: " \o operator)
NoValues(operator) == Err("Error", "No values for operator: " \o operator)

\* values.map(f) over results already computed: the first exception thrown
\* aborts the map.
MapResult(key, results) ==
  IF HasErr(results) THEN FirstErr(results) ELSE O1(key, JArr(results))

RECURSIVE convert(_)

convertAnd(values) ==
  IF ~IsArr(values) THEN NotAFunction("values.map")
  ELSE MapResult("allOf", [i \in 1..Len(values[2]) |-> convert(values[2][i])])

convertOr(values) ==
  IF ~IsArr(values) THEN NotAFunction("values.map")
  ELSE MapResult("anyOf", [i \in 1..Len(values[2]) |-> convert(values[2][i])])

\* values[0]: the first element of an array, the first character of a
\* string, the member "0" of an object, undefined otherwise.
convertNot(values) ==
  LET first == IF Iterable(values) THEN At(values, 1) ELSE Get(values, "0")
      inner == convert(first)
  IN IF IsErr(inner) THEN inner ELSE O1("not", inner)

getOperation(operator, values) ==
  CASE operator = "==" -> convertEquality(values)
    [] operator = "===" -> convertStrictEquality(values)
    [] operator = "!=" -> convertNotEqual(values)
    [] operator = "!==" -> convertStrictNotEqual(values)
    [] operator \in {"&&", "and"} -> convertAnd(values)
    [] operator \in {"||", "or"} -> convertOr(values)
    [] operator \in {"!", "not"} -> convertNot(values)
    [] operator = "in" -> convertIn(values)
    [] operator = "var" -> convertVar(values)
    [] operator = "startsWith" -> convertStartsWith(values)
    [] operator = "endsWith" -> convertEndsWith(values)
    [] operator = "between" -> convertBetween(values)
    [] operator \in {"<", "lt"} -> convertLessThan(values)
    [] operator = ">" -> convertGreaterThan(values)
    [] operator \in {"<=", "lte"} -> convertLessThanEqual(values)
    [] operator \in {">=", "gte"} -> convertGreaterThanEqual(values)
    [] operator = "equal" -> convertEquality(values)
    [] OTHER -> UnsupportedOperator(operator)

convert(jsonLogic) ==
  IF ~isValidValue(jsonLogic) THEN O1("const", jsonLogic)
  ELSE IF IsNull(jsonLogic) \/ IsUndef(jsonLogic)
    THEN Err("TypeError", "cannot convert undefined or null to object")
  ELSE LET operator == FirstKey(jsonLogic)
           values == Prop(jsonLogic, operator)
       IN IF ~Truthy(values) THEN NoValues(JsToString(operator))
          ELSE getOperation(operator[2], values)

\* {...a, ...b} for objects: b's members override a's in place, new keys
\* are appended in b's order.
RECURSIVE Spread(_, _)
Spread(a, b) ==
  IF Len(b) = 0 THEN a
  ELSE LET k == b[1][1]
           v == b[1][2]
           merged == IF \E i \in 1..Len(a) : a[i][1] = k
                       THEN [i \in 1..Len(a) |-> IF a[i][1] = k THEN <<k, v>> ELSE a[i]]
                       ELSE Append(a, <<k, v>>)
       IN Spread(merged, Tail(b))

DraftUri == "http://json-schema.org/draft-07/schema#"

\* Faulty variant: the envelope is spread last and overrides the
\* fragment's own `$schema` and `type`.
wrapSchema_EnvelopeLast(schema) ==
  JObj(Spread(IF IsObj(schema) THEN schema[2] ELSE <<>>,
              << <<"$schema", JStr(DraftUri)>>, <<"type", JStr("object")>> >>))

wrapSchema(schema) ==
  JObj(Spread(<< <<"$schema", JStr(DraftUri)>>, <<"type", JStr("object")>> >>,
              IF IsObj(schema) THEN schema[2] ELSE <<>>))

-----------------------------------------------------------------------------
(* rule-logic -> doc-schema: the class JsonLogicToSchema, the second copy *)

\* typeof value === "object" && value !== null && "var" in value
JsonLogicToSchema_isVar(value) == (IsObj(value) \/ IsArr(value)) /\ Has(value, "var")

\* varObj.var.toString() throws when var is null.
JsonLogicToSchema_getVarPath(varObj) ==
  LET v == Get(varObj, "var")
  IN IF IsStr(v) THEN v
     ELSE IF IsNull(v) \/ IsUndef(v) THEN NullProperty
     ELSE JStr(JsToString(v))

\* string.replace(/[.*+?^${}()|[\]\\]/g, "\\$&"): only a string has replace.
JsonLogicToSchema_escapeRegExp(string) ==
  IF IsStr(string) THEN JStr(EscapeChars(string[2]))
  ELSE IF IsNull(string) \/ IsUndef(string) THEN NullProperty
  ELSE NotAFunction("string.replace")

\* The shape shared by the class's leaf converters; the computed key is
\* evaluated before the leaf.
JsonLogicToSchema_OnField(x, leaf, bare) ==
  IF JsonLogicToSchema_isVar(x)
    THEN LET path == JsonLogicToSchema_getVarPath(x)
         IN IF IsErr(path) THEN path
            ELSE IF IsErr(leaf) THEN leaf
            ELSE O1("properties", O1(path[2], leaf))
  ELSE bare

JsonLogicToSchema_StringLeaf(pattern) ==
  IF IsErr(pattern) THEN pattern ELSE StringLeaf(pattern[2])

JsonLogicToSchema_convertStartsWith(values) ==
  IF ~Iterable(values) THEN NotIterable
  ELSE LET str == At(values, 1)
           prefix == At(values, 2)
           escaped == JsonLogicToSchema_escapeRegExp(prefix)
           leaf == JsonLogicToSchema_StringLeaf(IF IsErr(escaped) THEN escaped
                                                ELSE JStr("^" \o escaped[2]))
       IN JsonLogicToSchema_OnField(str, leaf, leaf)

JsonLogicToSchema_convertEndsWith(values) ==
  IF ~Iterable(values) THEN NotIterable
  ELSE LET str == At(values, 1)
           suffix == At(values, 2)
           escaped == JsonLogicToSchema_escapeRegExp(suffix)
           leaf == JsonLogicToSchema_StringLeaf(IF IsErr(escaped) THEN escaped
                                                ELSE JStr(escaped[2] \o "$"))
       IN JsonLogicToSchema_OnField(str, leaf, leaf)

\* "#/properties/" + path for every path that is no dotted string.
JsonLogicToSchema_convertVar(path) ==
  IF IsStr(path) /\ Includes(path[2], ".")
    THEN O1("$ref", JStr("#/properties/" \o Join(Split(path[2], "."), "/properties/")))
  ELSE O1("$ref", JStr("#/properties/" \o JsToString(path)))

JsonLogicToSchema_convertEquality(values) ==
  IF ~Iterable(values) THEN NotIterable
  ELSE LET left == At(values, 1)
           right == At(values, 2)
       IN JsonLogicToSchema_OnField(left, O1("const", right),
                                    O1("const", JBool(StrictEquals(left, right))))

JsonLogicToSchema_convertNotEqual(values) ==
  IF ~Iterable(values) THEN NotIterable
  ELSE LET left == At(values, 1)
           right == At(values, 2)
       IN JsonLogicToSchema_OnField(left, O1("not", O1("const", right)),
                                    O1("not", O1("const", JBool(StrictEquals(left, right)))))

JsonLogicToSchema_convertStrictEquality(values) == JsonLogicToSchema_convertEquality(values)

JsonLogicToSchema_convertGreaterThan(values) ==
  IF ~Iterable(values) THEN NotIterable
  ELSE LET left == At(values, 1)
           right == At(values, 2)
           leaf == NumberLeaf1("exclusiveMinimum", right)
       IN JsonLogicToSchema_OnField(left, leaf, leaf)

JsonLogicToSchema_convertGreaterThanEqual(values) ==
  IF LengthOf(values) = 3
    THEN LET min == At(values, 1)
             value == At(values, 2)
             max == At(values, 3)
             leaf == NumberLeaf2(min, max)
         IN JsonLogicToSchema_OnField(value, leaf, leaf)
  ELSE IF ~Iterable(values) THEN NotIterable
  ELSE LET left == At(values, 1)
           right == At(values, 2)
           leaf == NumberLeaf1("minimum", right)
       IN JsonLogicToSchema_OnField(left, leaf, leaf)

JsonLogicToSchema_convertLessThan(values) ==
  IF ~Iterable(values) THEN NotIterable
  ELSE LET left == At(values, 1)
           right == At(values, 2)
           leaf == NumberLeaf1("exclusiveMaximum", right)
       IN JsonLogicToSchema_OnField(left, leaf, leaf)

JsonLogicToSchema_convertLessThanEqual(values) ==
  IF LengthOf(values) = 3
    THEN LET min == At(values, 1)
             value == At(values, 2)
             max == At(values, 3)
             isDate == IsStr(min) /\ DateParses(min[2])
             leaf == StringRangeLeaf(isDate, min, max)
         IN JsonLogicToSchema_OnField(value, leaf, leaf)
  ELSE IF ~Iterable(values) THEN NotIterable
  ELSE LET left == At(values, 1)
           right == At(values, 2)
           leaf == NumberLeaf1("maximum", right)
       IN JsonLogicToSchema_OnField(left, leaf, leaf)

\* No test of values.length: [min, value, max] is read from any iterable,
\* and a missing element is undefined.
JsonLogicToSchema_convertBetween(values) ==
  IF ~Iterable(values) THEN NotIterable
  ELSE LET min == At(values, 1)
           value == At(values, 2)
           max == At(values, 3)
           leaf == NumberLeaf2(min, max)
       IN JsonLogicToSchema_OnField(value, leaf, leaf)

JsonLogicToSchema_convertIn(values) ==
  IF ~Iterable(values) THEN NotIterable
  ELSE LET item == At(values, 1)
           list == At(values, 2)
           leaf == O1("enum", list)
       IN JsonLogicToSchema_OnField(item, leaf, leaf)

\* Object.keys(this.operators), in the constructor's order.
JsonLogicToSchema_operatorKeys ==
  <<"==", "===", "equal", ">", ">=", "<", "<=", "gt", "gte", "lt", "lte",
    "&&", "and", "||", "or", "!", "not", "in", "var", "!=", "!==", "between",
    "startsWith", "endsWith">>

JsonLogicToSchema_UnsupportedOperator(operator) ==
  Err("Error", "Unsupported operator: " \o operator \o ". Supported operators are: "
               \o Join(JsonLogicToSchema_operatorKeys, ", "))

RECURSIVE JsonLogicToSchema_convert(_)

JsonLogicToSchema_convertAnd(values) ==
  IF IsNull(values) \/ IsUndef(values) THEN NullProperty
  ELSE IF ~IsArr(values) THEN NotAFunction("values.map")
  ELSE MapResult("allOf", [i \in 1..Len(values[2]) |-> JsonLogicToSchema_convert(values[2][i])])

JsonLogicToSchema_convertOr(values) ==
  IF IsNull(values) \/ IsUndef(values) THEN NullProperty
  ELSE IF ~IsArr(values) THEN NotAFunction("values.map")
  ELSE MapResult("anyOf", [i \in 1..Len(values[2]) |-> JsonLogicToSchema_convert(values[2][i])])

\* Array.isArray(value) ? value[0] : value
JsonLogicToSchema_convertNot(value) ==
  LET inner == JsonLogicToSchema_convert(IF IsArr(value) THEN At(value, 1) ELSE value)
  IN IF IsErr(inner) THEN inner ELSE O1("not", inner)

\* this.operators[operator](values) for a key of the table.
JsonLogicToSchema_operators(operator, values) ==
  CASE operator \in {"==", "equal"} -> JsonLogicToSchema_convertEquality(values)
    [] operator = "===" -> JsonLogicToSchema_convertStrictEquality(values)
    [] operator \in {">", "gt"} -> JsonLogicToSchema_convertGreaterThan(values)
    [] operator \in {">=", "gte"} -> JsonLogicToSchema_convertGreaterThanEqual(values)
    [] operator \in {"<", "lt"} -> JsonLogicToSchema_convertLessThan(values)
    [] operator \in {"<=", "lte"} -> JsonLogicToSchema_convertLessThanEqual(values)
    [] operator \in {"&&", "and"} -> JsonLogicToSchema_convertAnd(values)
    [] operator \in {"||", "or"} -> JsonLogicToSchema_convertOr(values)
    [] operator \in {"!", "not"} -> JsonLogicToSchema_convertNot(values)
    [] operator = "in" -> JsonLogicToSchema_convertIn(values)
    [] operator = "var" -> JsonLogicToSchema_convertVar(values)
    [] operator \in {"!=", "!=="} -> JsonLogicToSchema_convertNotEqual(values)
    [] operator = "between" -> JsonLogicToSchema_convertBetween(values)
    [] operator = "startsWith" -> JsonLogicToSchema_convertStartsWith(values)
    [] operator = "endsWith" -> JsonLogicToSchema_convertEndsWith(values)

\* The table is looked up with the first own key of the document; the
\* documents carry no key that names a member of Object.prototype, the
\* only other keys the lookup finds.
JsonLogicToSchema_convert(jsonLogic) ==
  IF ~(IsObj(jsonLogic) \/ IsArr(jsonLogic)) THEN O1("const", jsonLogic)
  ELSE LET operator == FirstKey(jsonLogic)
           values == Prop(jsonLogic, operator)
       IN IF \E i \in 1..Len(JsonLogicToSchema_operatorKeys) :
                operator = JStr(JsonLogicToSchema_operatorKeys[i])
            THEN JsonLogicToSchema_operators(operator[2], values)
            ELSE JsonLogicToSchema_UnsupportedOperator(JsToString(operator))

JsonLogicToSchema_wrapSchema(schema) ==
  JObj(Spread(<< <<"$schema", JStr(DraftUri)>>, <<"type", JStr("object")>> >>,
              IF IsObj(schema) THEN schema[2] ELSE <<>>))

-----------------------------------------------------------------------------
(* doc-schema -> rule-logic: convertSchema (the second `convert`) *)

isJSONSchema7(schema) == TypeofObject(schema)

Var(name) == O1("var", JStr(name))
Empty == JObj(<<>>)

\* JSON.parse(JSON.stringify(converted).replaceAll(/"var"\s*:\s*"value"/g,
\* `"var": "${key}"`)).  In the serialisation the text "var":"value" occurs
\* exactly where an object has a member named var whose value is the string
\* "value", at any depth; each such member becomes var: key.  (Keys are
\* taken without `"`, `\`, `$` and control characters, for which the
\* replacement text is the key itself.)
RECURSIVE ReplaceVars(_, _)
ReplaceVars(j, key) ==
  CASE IsArr(j) -> JArr([i \in 1..Len(j[2]) |-> ReplaceVars(j[2][i], key)])
    [] IsObj(j) ->
         JObj([i \in 1..Len(j[2]) |->
                 IF j[2][i][1] = "var" /\ j[2][i][2] = JStr("value")
                   THEN <<"var", JStr(key)>>
                   ELSE <<j[2][i][1], ReplaceVars(j[2][i][2], key)>>])
    [] OTHER -> j

\* Object.entries(x) for an object, an array (index keys) or a string (its
\* characters); other truthy values have no entries.
Entries(x) ==
  CASE IsObj(x) -> x[2]
    [] IsArr(x) -> [i \in 1..Len(x[2]) |-> <<NumToString(i - 1), x[2][i]>>]
    [] IsStr(x) -> [i \in 1..Len(x[2]) |-> <<NumToString(i - 1), JStr(SubSeq(x[2], i, i))>>]
    [] OTHER -> <<>>

\* xs.filter(isJSONSchema7)
RECURSIVE FilterSchemas(_)
FilterSchemas(xs) ==
  IF Len(xs) = 0 THEN <<>>
  ELSE (IF isJSONSchema7(xs[1]) THEN <<xs[1]>> ELSE <<>>) \o FilterSchemas(Tail(xs))

HasRangeKey(schema) ==
  \/ Has(schema, "minimum")
  \/ Has(schema, "maximum")
  \/ Has(schema, "exclusiveMinimum")
  \/ Has(schema, "exclusiveMaximum")

\* A faulty variant of rangeBranch: the single-bound tests come before the
\* test for both bounds.
rangeBranch_SingleBoundFirst(schema) ==
  IF Has(schema, "minimum")
    THEN O1(">=", JArr(<<Var("value"), Get(schema, "minimum")>>))
  ELSE IF Has(schema, "maximum")
    THEN O1("<=", JArr(<<Var("value"), Get(schema, "maximum")>>))
  ELSE IF Has(schema, "exclusiveMinimum")
    THEN O1(">", JArr(<<Var("value"), Get(schema, "exclusiveMinimum")>>))
  ELSE O1("<", JArr(<<Var("value"), Get(schema, "exclusiveMaximum")>>))

\* A faulty variant of rangeBranch: the exclusive bounds are tested before
\* the inclusive single bounds.
rangeBranch_ExclusiveFirst(schema) ==
  IF Has(schema, "minimum") /\ Has(schema, "maximum")
    THEN O1("<=", JArr(<<Get(schema, "minimum"), Var("value"), Get(schema, "maximum")>>))
  ELSE IF Has(schema, "exclusiveMinimum")
    THEN O1(">", JArr(<<Var("value"), Get(schema, "exclusiveMinimum")>>))
  ELSE IF Has(schema, "exclusiveMaximum")
    THEN O1("<", JArr(<<Var("value"), Get(schema, "exclusiveMaximum")>>))
  ELSE IF Has(schema, "minimum")
    THEN O1(">=", JArr(<<Var("value"), Get(schema, "minimum")>>))
  ELSE O1("<=", JArr(<<Var("value"), Get(schema, "maximum")>>))

\* The range branch: entered for type number or string with a range key,
\* and then always returns.
rangeBranch(schema) ==
  IF Has(schema, "minimum") /\ Has(schema, "maximum")
    THEN O1("<=", JArr(<<Get(schema, "minimum"), Var("value"), Get(schema, "maximum")>>))
  ELSE IF Has(schema, "minimum")
    THEN O1(">=", JArr(<<Var("value"), Get(schema, "minimum")>>))
  ELSE IF Has(schema, "maximum")
    THEN O1("<=", JArr(<<Var("value"), Get(schema, "maximum")>>))
  ELSE IF Has(schema, "exclusiveMinimum")
    THEN O1(">", JArr(<<Var("value"), Get(schema, "exclusiveMinimum")>>))
  ELSE O1("<", JArr(<<Var("value"), Get(schema, "exclusiveMaximum")>>))

\* A faulty variant of refBranch: only the first "/properties/" separator
\* is turned into a dot (replace instead of replaceAll).
refBranch_ReplaceFirst(schema) ==
  LET ref == Get(schema, "$ref")
  IN IF ~IsStr(ref) THEN NotAFunction("schema.$ref.replace")
     ELSE O1("var", JStr(Replace(Replace(ref[2], "#/properties/", ""), "/properties/", ".")))

refBranch(schema) ==
  LET ref == Get(schema, "$ref")
  IN IF ~IsStr(ref) THEN NotAFunction("schema.$ref.replace")
     ELSE O1("var", JStr(ReplaceAll(Replace(ref[2], "#/properties/", ""), "/properties/", ".")))

\* The pattern branch returns only for an anchored pattern; otherwise the
\* converter goes on to the later shapes (Undef here).
patternBranch(schema) ==
  LET pattern == Get(schema, "pattern")
  IN IF ~IsStr(pattern) THEN NotAFunction("schema.pattern.startsWith")
     ELSE IF StartsWith(pattern[2], "^") THEN O1("startsWith", JArr(<<Var("value"), pattern>>))
     ELSE IF EndsWith(pattern[2], "$") THEN O1("endsWith", JArr(<<Var("value"), pattern>>))
     ELSE Undef

RECURSIVE convertSchema(_)

logicalBranch(key, list) ==
  IF ~IsArr(list) THEN NotAFunction("filter")
  ELSE LET kept == FilterSchemas(list[2])
       IN MapResult(key, [i \in 1..Len(kept) |-> convertSchema(kept[i])])

notBranch(schema) ==
  LET inner == convertSchema(Get(schema, "not"))
  IN IF IsErr(inner) THEN inner ELSE O1("!", inner)

propertyCondition(key, value) ==
  IF ~isJSONSchema7(value) THEN Empty
  ELSE LET converted == convertSchema(value)
       IN IF IsErr(converted) THEN converted ELSE ReplaceVars(converted, key)

\* A faulty variant of propertiesBranch: a single condition is wrapped in
\* `and` like any other number of conditions.
propertiesBranch_AlwaysAnd(schema) ==
  LET entries == Entries(Get(schema, "properties"))
      conditions == [i \in 1..Len(entries) |-> propertyCondition(entries[i][1], entries[i][2])]
  IN IF HasErr(conditions) THEN FirstErr(conditions)
     ELSE O1("and", JArr(conditions))

propertiesBranch(schema) ==
  LET entries == Entries(Get(schema, "properties"))
      conditions == [i \in 1..Len(entries) |-> propertyCondition(entries[i][1], entries[i][2])]
  IN IF HasErr(conditions) THEN FirstErr(conditions)
     ELSE IF Len(conditions) = 1 THEN conditions[1]
     ELSE O1("and", JArr(conditions))

arrayBranch(schema) ==
  LET items == Get(schema, "items")
  IN IF Truthy(Get(items, "enum"))
       THEN O1("all", JArr(<<Var("value"),
                             O1("in", JArr(<<Var(""), Get(items, "enum")>>))>>))
       ELSE convertSchema(items)

\* The shapes after the pattern branch.
laterShapes(schema) ==
  IF Truthy(Get(schema, "allOf")) THEN logicalBranch("and", Get(schema, "allOf"))
  ELSE IF Truthy(Get(schema, "anyOf")) THEN logicalBranch("or", Get(schema, "anyOf"))
  ELSE IF Truthy(Get(schema, "not")) /\ isJSONSchema7(Get(schema, "not")) THEN notBranch(schema)
  ELSE IF Truthy(Get(schema, "properties")) THEN propertiesBranch(schema)
  ELSE IF Get(schema, "type") = JStr("boolean") THEN O1("==", JArr(<<Var("value"), JTrue>>))
  ELSE IF /\ Get(schema, "type") = JStr("array")
          /\ Truthy(Get(schema, "items"))
          /\ ~IsArr(Get(schema, "items"))
          /\ isJSONSchema7(Get(schema, "items"))
    THEN arrayBranch(schema)
  ELSE Empty

\* Faulty variant: the enum shape is tried before const and the range keys.
convertSchema_EnumFirst(schema) ==
  IF ~isJSONSchema7(schema) THEN Empty
  ELSE IF IsNull(schema) THEN NullProperty
  ELSE IF Truthy(Get(schema, "$ref")) THEN refBranch(schema)
  ELSE IF Truthy(Get(schema, "enum")) THEN O1("in", JArr(<<Var("value"), Get(schema, "enum")>>))
  ELSE IF Has(schema, "const") THEN O1("==", JArr(<<Var("value"), Get(schema, "const")>>))
  ELSE IF Get(schema, "type") \in {JStr("number"), JStr("string")} /\ HasRangeKey(schema)
    THEN rangeBranch(schema)
  ELSE IF Truthy(Get(schema, "pattern")) /\ ~IsUndef(patternBranch(schema))
    THEN patternBranch(schema)
  ELSE laterShapes(schema)

convertSchema(schema) ==
  IF ~isJSONSchema7(schema) THEN Empty
  ELSE IF IsNull(schema) THEN NullProperty
  ELSE IF Truthy(Get(schema, "$ref")) THEN refBranch(schema)
  ELSE IF Has(schema, "const") THEN O1("==", JArr(<<Var("value"), Get(schema, "const")>>))
  ELSE IF Get(schema, "type") \in {JStr("number"), JStr("string")} /\ HasRangeKey(schema)
    THEN rangeBranch(schema)
  ELSE IF Truthy(Get(schema, "enum")) THEN O1("in", JArr(<<Var("value"), Get(schema, "enum")>>))
  ELSE IF Truthy(Get(schema, "pattern")) /\ ~IsUndef(patternBranch(schema))
    THEN patternBranch(schema)
  ELSE laterShapes(schema)

-----------------------------------------------------------------------------
(* conditional doc-schema -> flat rules: transformJsonSchemaToRules *)

\* s.slice(start, end) with start >= 0 and end < 0 (counted from the end).
Slice(s, start, end) ==
  LET from == start + 1
      to == Len(s) + end
  IN IF from > to \/ from > Len(s) THEN "" ELSE SubSeq(s, from, to)

\* `"k" in property` throws for a primitive, null or undefined.
InThrows(property) == ~(IsObj(property) \/ IsArr(property))

\* property.pattern?.startsWith / endsWith throw for a pattern that is
\* neither a string nor null/undefined.
PatternThrows(property) ==
  /\ Has(property, "pattern")
  /\ ~IsStr(Get(property, "pattern"))
  /\ ~IsNull(Get(property, "pattern"))
  /\ ~IsUndef(Get(property, "pattern"))

PatternStarts(property) ==
  /\ Has(property, "pattern")
  /\ IsStr(Get(property, "pattern"))
  /\ StartsWith(Get(property, "pattern")[2], "^")

PatternEnds(property) ==
  /\ Has(property, "pattern")
  /\ IsStr(Get(property, "pattern"))
  /\ EndsWith(Get(property, "pattern")[2], "$")

determineOperator(property) ==
  IF InThrows(property) THEN InOnNull
  ELSE IF \/ (Has(property, "minimum") /\ Has(property, "maximum"))
          \/ (Has(property, "exclusiveMinimum") /\ Has(property, "exclusiveMaximum"))
    THEN JStr("between")
  ELSE IF Has(property, "minimum") THEN JStr(">=")
  ELSE IF Has(property, "exclusiveMaximum") THEN JStr("<")
  ELSE IF Has(property, "maximum") THEN JStr("<=")
  ELSE IF PatternThrows(property) THEN NotAFunction("property.pattern.startsWith")
  ELSE IF PatternStarts(property) THEN JStr("startsWith")
  ELSE IF PatternEnds(property) THEN JStr("endsWith")
  ELSE IF Has(property, "enum") THEN JStr("in")
  ELSE IF Has(property, "not")
    THEN (IF TypeofObject(Get(property, "not")) THEN JStr("notIn") ELSE JStr("!="))
  ELSE JStr("==")

mapToValue(property) ==
  LET not == Get(property, "not")
      pattern == Get(property, "pattern")
  IN IF InThrows(property) THEN InOnNull
     ELSE IF Has(property, "minimum") THEN Get(property, "minimum")
     ELSE IF Has(property, "exclusiveMaximum") THEN Get(property, "exclusiveMaximum")
     ELSE IF Has(property, "maximum") THEN Get(property, "maximum")
     ELSE IF Has(property, "exclusiveMinimum") /\ Truthy(Get(property, "exclusiveMinimum"))
       THEN Get(property, "exclusiveMinimum")
     ELSE IF Has(property, "pattern") /\ Truthy(pattern) /\ ~IsStr(pattern)
       THEN NotAFunction("property.pattern.startsWith")
     ELSE IF Has(property, "pattern") /\ Truthy(pattern) /\ StartsWith(pattern[2], "^")
       THEN JStr(Slice(pattern[2], 1, -2))
     ELSE IF Has(property, "pattern") /\ Truthy(pattern) /\ EndsWith(pattern[2], "$")
       THEN JStr(Slice(pattern[2], 2, -1))
     ELSE IF Has(property, "enum") /\ IsArr(Get(property, "enum")) THEN Get(property, "enum")
     ELSE IF Has(property, "not") /\ IsNull(not) THEN InOnNull
     ELSE IF Has(property, "not") /\ TypeofObject(not) /\ Has(not, "enum") THEN Get(not, "enum")
     ELSE IF Has(property, "not") /\ TypeofObject(not) /\ Has(not, "const") THEN Get(not, "const")
     ELSE IF Has(property, "const") THEN Get(property, "const")
     ELSE Undef

\* x?.length: undefined for null/undefined and for values without a length.
LengthOrUndef(x) == IF Iterable(x) THEN JNum(Len(x[2])) ELSE Undef

\* One element of ruleList.map: the rule built from a clause of the `if`.
ruleOf(rule) ==
  LET properties == Get(rule, "properties")
      field == FirstKey(properties)
      property == Prop(properties, field)
      operator == determineOperator(property)
      value == mapToValue(property)
  IN IF IsNull(rule) \/ IsUndef(rule) THEN NullProperty
     ELSE IF IsNull(properties) \/ IsUndef(properties)
       THEN Err("TypeError", "cannot convert undefined or null to object")
     ELSE IF IsErr(operator) THEN operator
     ELSE IF IsErr(value) THEN value
     ELSE JObj(<< <<"field", field>>, <<"operator", operator>>, <<"value", value>> >>)

QueryStructure(combinator, rules) ==
  JObj(<< <<"combinator", JStr(combinator)>>, <<"rules", JArr(rules)>> >>)

transformJsonSchemaToRules(schema) ==
  LET if == Get(schema, "if")
      allOf == Get(if, "allOf")
      anyOf == Get(if, "anyOf")
      useAll == Truthy(LengthOrUndef(allOf))
      combinator == IF useAll THEN "and" ELSE "or"
      ruleList == IF useAll THEN allOf ELSE anyOf
      rules == [i \in 1..Len(ruleList[2]) |-> ruleOf(ruleList[2][i])]
  IN IF IsNull(schema) \/ IsUndef(schema) THEN NullProperty
     ELSE IF ~Truthy(LengthOrUndef(allOf)) /\ ~Truthy(LengthOrUndef(anyOf))
       THEN QueryStructure("and", <<>>)
     ELSE IF ~IsArr(ruleList) THEN NotAFunction("ruleList.map")
     ELSE IF HasErr(rules) THEN FirstErr(rules)
     ELSE QueryStructure(combinator, rules)

-----------------------------------------------------------------------------
(* flat rules -> conditional doc-schema: buildFieldJsonSchema *)

\* rule.value?.toString() inside a template literal: "undefined" for a
\* missing or null value.
OptToString(v) == IF IsNull(v) \/ IsUndef(v) THEN "undefined" ELSE JsToString(v)

\* {properties: {[field]: leaf}, required: [field]}
FieldClause(field, leaf) ==
  JObj(<< <<"properties", O1(JsToString(field), leaf)>>, <<"required", JArr(<<field>>)>> >>)

\* Array.isArray(value) ? value : [value]
AsList(value) == IF IsArr(value) THEN value ELSE JArr(<<value>>)

\* One element of query.rules.map: the clause built from a rule. An
\* operator outside the switch, and a `between` whose value is not a
\* 2-element array, fall through to `return {}`.
fieldRuleOf(rule) ==
  LET field == Get(rule, "field")
      operator == Get(rule, "operator")
      value == Get(rule, "value")
      number(k) == JObj(<< <<"type", JStr("number")>>, <<k, value>> >>)
      string(pattern) == JObj(<< <<"type", JStr("string")>>, <<"pattern", JStr(pattern)>> >>)
  IN IF IsNull(rule) \/ IsUndef(rule) THEN NullProperty
     ELSE CASE operator \in {JStr("=="), JStr("==="), JStr("equal")} ->
                 FieldClause(field, O1("const", value))
            [] operator \in {JStr("!="), JStr("!==")} ->
                 FieldClause(field, O1("not", O1("const", value)))
            [] operator \in {JStr("beginsWith"), JStr("startsWith")} ->
                 FieldClause(field, string("^" \o OptToString(value) \o ".*"))
            [] operator = JStr("endsWith") ->
                 FieldClause(field, string(".*" \o OptToString(value) \o "$"))
            [] operator \in {JStr(">"), JStr("gt")} -> FieldClause(field, number("exclusiveMinimum"))
            [] operator \in {JStr(">="), JStr("gte")} -> FieldClause(field, number("minimum"))
            [] operator \in {JStr("<"), JStr("lt")} -> FieldClause(field, number("exclusiveMaximum"))
            [] operator \in {JStr("<="), JStr("lte")} -> FieldClause(field, number("maximum"))
            [] operator = JStr("between") /\ IsArr(value) /\ Len(value[2]) = 2 ->
                 FieldClause(field, JObj(<< <<"type", JStr("number")>>,
                                            <<"minimum", value[2][1]>>,
                                            <<"maximum", value[2][2]>> >>))
            [] operator = JStr("in") -> FieldClause(field, O1("enum", AsList(value)))
            [] operator = JStr("notIn") ->
                 FieldClause(field, O1("not", O1("enum", AsList(value))))
            [] OTHER -> Empty

\* Faulty variant: a group of one rule yields that rule's clause as the
\* `if`, without the allOf / anyOf lists around it.
buildFieldJsonSchema_UnwrapSingle(parentFieldName, query) ==
  LET rules == Get(query, "rules")
      fieldRules == [i \in 1..Len(rules[2]) |-> fieldRuleOf(rules[2][i])]
      combinator == IF Get(query, "combinator") = JStr("and") THEN "allOf" ELSE "anyOf"
      other == IF combinator = "allOf" THEN "anyOf" ELSE "allOf"
      if == IF Len(fieldRules) = 1 THEN fieldRules[1]
            ELSE JObj(<< <<combinator, JArr(fieldRules)>>, <<other, JArr(<<>>)>> >>)
  IN IF IsNull(query) \/ IsUndef(query) THEN NullProperty
     ELSE IF ~IsArr(rules) THEN NotAFunction("query.rules.map")
     ELSE IF HasErr(fieldRules) THEN FirstErr(fieldRules)
     ELSE JObj(<< <<"if", if>>,
                  <<"then", O1("required", JArr(<<JStr(parentFieldName)>>))>> >>)

buildFieldJsonSchema(parentFieldName, query) ==
  LET rules == Get(query, "rules")
      fieldRules == [i \in 1..Len(rules[2]) |-> fieldRuleOf(rules[2][i])]
      combinator == IF Get(query, "combinator") = JStr("and") THEN "allOf" ELSE "anyOf"
      other == IF combinator = "allOf" THEN "anyOf" ELSE "allOf"
  IN IF IsNull(query) \/ IsUndef(query) THEN NullProperty
     ELSE IF ~IsArr(rules) THEN NotAFunction("query.rules.map")
     ELSE IF HasErr(fieldRules) THEN FirstErr(fieldRules)
     ELSE JObj(<< <<"if", JObj(<< <<combinator, JArr(fieldRules)>>, <<other, JArr(<<>>)>> >>)>>,
                  <<"then", O1("required", JArr(<<JStr(parentFieldName)>>))>> >>)

-----------------------------------------------------------------------------
(* flat rules -> conditional doc-schema: translateRulesToJSONSchema *)

\* NaN, the result of parseFloat on text without a leading number.
JNaN == <<"nan", 0>>

RECURSIVE TrimStart(_)
TrimStart(s) == IF Len(s) > 0 /\ SubSeq(s, 1, 1) = " " THEN TrimStart(Tail(s)) ELSE s

RECURSIVE TrimEnd(_)
TrimEnd(s) ==
  IF Len(s) > 0 /\ SubSeq(s, Len(s), Len(s)) = " " THEN TrimEnd(SubSeq(s, 1, Len(s) - 1)) ELSE s

\* String.prototype.trim (spaces).
Trim(s) == TrimEnd(TrimStart(s))

\* The longest prefix of decimal digits.
RECURSIVE LeadingDigits(_)
LeadingDigits(s) ==
  IF Len(s) > 0 /\ IsDigits(SubSeq(s, 1, 1))
    THEN SubSeq(s, 1, 1) \o LeadingDigits(Tail(s))
    ELSE ""

\* parseFloat(value) for non-negative integers: the value is turned into
\* a string, leading spaces are skipped and the leading digits are read;
\* NaN when there are none.
parseFloat(value) ==
  LET digits == LeadingDigits(TrimStart(JsToString(value)))
  IN IF digits = "" THEN JNaN ELSE JNum(DigitsToNat(digits))

\* The global isNaN(value): Number(value) is NaN.
RECURSIVE isNaN(_)
isNaN(value) ==
  CASE IsNum(value) -> FALSE
    [] IsStr(value) -> LET t == Trim(value[2]) IN ~(t = "" \/ IsDigits(t))
    [] IsNull(value) -> FALSE
    [] IsBool(value) -> FALSE
    [] IsArr(value) -> isNaN(JStr(JsToString(value)))
    [] OTHER -> TRUE

\* {properties: {[field]: leaf}}
OnProperty(field, leaf) == O1("properties", O1(JsToString(field), leaf))

translateSingleRule(rule) ==
  LET field == Get(rule, "field")
      operator == Get(rule, "operator")
      value == Get(rule, "value")
      const == IF isNaN(value) THEN value ELSE parseFloat(value)
      parts == Split(value[2], ",")
  IN IF IsNull(rule) \/ IsUndef(rule) THEN NullProperty
     ELSE CASE operator = JStr("beginsWith") ->
                 OnProperty(field, JObj(<< <<"type", JStr("string")>>,
                                           <<"pattern", JStr("^" \o JsToString(value))>> >>))
            [] operator = JStr("in") ->
                 IF IsNull(value) \/ IsUndef(value) THEN NullProperty
                 ELSE IF ~IsStr(value) THEN NotAFunction("value.split")
                 ELSE OnProperty(field,
                        O1("enum", JArr([i \in 1..Len(parts) |-> JStr(Trim(parts[i]))])))
            [] operator = JStr(">") ->
                 OnProperty(field, JObj(<< <<"type", JStr("number")>>,
                                           <<"minimum", parseFloat(value)>>,
                                           <<"exclusiveMinimum", JTrue>> >>))
            [] operator = JStr(">=") ->
                 OnProperty(field, JObj(<< <<"type", JStr("number")>>,
                                           <<"minimum", parseFloat(value)>> >>))
            [] operator = JStr("<") ->
                 OnProperty(field, JObj(<< <<"type", JStr("number")>>,
                                           <<"maximum", parseFloat(value)>>,
                                           <<"exclusiveMaximum", JTrue>> >>))
            [] operator = JStr("<=") ->
                 OnProperty(field, JObj(<< <<"type", JStr("number")>>,
                                           <<"maximum", parseFloat(value)>> >>))
            [] operator \in {JStr("="), JStr("==")} -> OnProperty(field, O1("const", const))
            [] operator = JStr("!=") -> O1("not", OnProperty(field, O1("const", const)))
            [] OTHER -> Err("Error", "Unsupported operator: " \o JsToString(operator))

processRules(rulesObj) ==
  LET rules == Get(rulesObj, "rules")
      translatedRules == [i \in 1..Len(rules[2]) |-> translateSingleRule(rules[2][i])]
      combinator == Get(rulesObj, "combinator")
      condition == IF combinator = JStr("and") THEN O1("allOf", JArr(translatedRules))
                   ELSE O1("anyOf", JArr(translatedRules))
  IN IF IsNull(rulesObj) \/ IsUndef(rulesObj) THEN NullProperty
     ELSE IF ~Truthy(rules) \/ ~IsArr(rules) THEN Err("Error", "Invalid rules structure")
     ELSE IF HasErr(translatedRules) THEN FirstErr(translatedRules)
     ELSE IF combinator \notin {JStr("and"), JStr("or")}
       THEN Err("Error", "Unsupported combinator: " \o JsToString(combinator))
     ELSE IF Get(rulesObj, "not") = JTrue THEN O1("not", condition)
     ELSE condition

translateRulesToJSONSchema(rules, fieldToMakeRequired) ==
  LET if == processRules(rules)
  IN IF IsErr(if) THEN if
     ELSE JObj(<< <<"type", JStr("object")>>,
                  <<"properties", Empty>>,
                  <<"if", if>>,
                  <<"then", O1("required", JArr(<<JStr(fieldToMakeRequired)>>))>> >>)

-----------------------------------------------------------------------------
(* Bounds and input documents *)

\* Conversions applied in a row to one document.
MaxSteps == 3
\* Children of an and / or / allOf / anyOf node of an input document.
MaxKids == 2
\* Entries of a `properties` object of an input schema.
MaxProps == 2
\* Segments of an input field path.
MaxSegs == 3
\* Rules of an input flat-rule group.
MaxRules == 2

\* Non-empty sequences over S of length at most n.
SeqsUpTo(S, n) == UNION {[1..k -> S] : k \in 1..n}

\* Sequences without repetition.
Distinct(q) == \A i, j \in 1..Len(q) : i # j => q[i] # q[j]

\* An object from optional members: the absent ones (Undef) are left out.
RECURSIVE Present(_)
Present(ms) ==
  IF Len(ms) = 0 THEN <<>>
  ELSE (IF IsUndef(ms[1][2]) THEN <<>> ELSE <<ms[1]>>) \o Present(Tail(ms))

Op(key, args) == O1(key, JArr(args))

Statuses == JArr(<<JStr("active"), JStr("pending")>>)

\* -- rule-logic documents ------------------------------------------------

CanonicalComparisons == {"==", "!=", ">", ">=", "<", "<="}
\* alias -> canonical operator
AliasOf ==
  [a \in {"===", "equal", "!==", "gt", "gte", "lt", "lte", "&&", "||", "not"} |->
     CASE a \in {"===", "equal"} -> "=="
       [] a = "!==" -> "!="
       [] a = "gt" -> ">"
       [] a = "gte" -> ">="
       [] a = "lt" -> "<"
       [] a = "lte" -> "<="
       [] a = "&&" -> "and"
       [] a = "||" -> "or"
       [] OTHER -> "!"]
ComparisonAliases == {"===", "equal", "!==", "gt", "gte", "lt", "lte"}
UnknownOperators == {"xor", "nand"}

ComparisonLeaves ==
  {Op(op, <<Var(f), JNum(n)>>) :
     op \in CanonicalComparisons \cup ComparisonAliases, f \in {"age", "value"}, n \in {18, 0}}

InLeaves ==
  {Op("in", <<Var(f), list>>) : f \in {"status", "value"}, list \in {Statuses, JArr(<<>>)}}

AnchorLeaves ==
  {Op(op, <<Var("email"), JStr(lit)>>) :
     op \in {"startsWith", "endsWith"}, lit \in {"admin", "a.b"}}

RangeOperators == {">=", "<=", "between", "gte", "lte"}

\* The pairs of bounds of the 3-element leaves: numbers, dates, and strings
\* that are no dates.
BoundPairs ==
  {<<JNum(0), JNum(100)>>, <<JStr("2024-01-01"), JStr("2024-12-31")>>,
   <<JStr("2024-13-45"), JStr("2024-12-31")>>, <<JStr("abc"), JStr("xyz")>>}

\* The bounds above that are calendar dates.
CalendarDates == {JStr("2024-01-01"), JStr("2024-12-31")}

\* The middle operand of a 3-element leaf (the first of a 2-element one):
\* a field or a constant.
Operands == {Var("age"), Var("day"), JNum(50)}

RangeLeaves ==
  {Op(op, <<b[1], x, b[2]>>) : op \in RangeOperators, b \in BoundPairs, x \in Operands}
  \cup {Op(op, <<x, JNum(18)>>) : op \in RangeOperators, x \in Operands}

\* Leaves on fields of one, two and three segments.
DottedFields == {"age", "a.b", "a.b.c"}
DottedLeaves ==
  {Op(op, <<Var(f), JNum(18)>>) : op \in {"==", ">="}, f \in DottedFields}
  \cup {Op("in", <<Var(f), Statuses>>) : f \in DottedFields}

FieldlessLeaves ==
  {Op("==", <<JNum(1), JNum(1)>>), Op("!=", <<JNum(1), JNum(2)>>),
   Op(">", <<JNum(5), JNum(3)>>), Op("in", <<JNum(1), JArr(<<JNum(1)>>)>>),
   Op("==", <<JNull, JNum(1)>>), O1("var", JStr("age")), O1("var", JStr("a.b")),
   O1("var", JNum(7))}

\* Objects whose first key is no operator of the converter, with a truthy
\* and with a falsy argument.
UnknownLeaves ==
  {O1(op, a) : op \in UnknownOperators,
               a \in {JArr(<<JNum(1), JNum(2)>>), JArr(<<>>), JNum(0), JNull, JStr("")}}

NonObjects == {JNum(18), JStr("abc"), JStr(""), JNull, JTrue, JObj(<<>>), JArr(<<>>)}

\* Values that are no object: a number, a string, null, a boolean.
Primitives == {JNum(18), JNum(0), JStr("abc"), JStr(""), JNull, JTrue, JFalse}

\* Logical nodes with a non-object child.
PrimitiveParents ==
  {O1(key, JArr(<<v>>)) : key \in {"and", "or", "not"}, v \in Primitives}
  \cup {Op("and", <<Op(">=", <<Var("age"), JNum(18)>>), v>>) : v \in Primitives}

\* Children of the logical nodes: the >= / in leaves, a comparison, and an
\* unknown operator.
KidPool ==
  {Op(">=", <<Var("age"), JNum(18)>>), Op(">=", <<Var("value"), JNum(0)>>),
   Op("in", <<Var("status"), Statuses>>), Op("in", <<Var("value"), JArr(<<>>)>>),
   Op("!=", <<Var("age"), JNum(18)>>), Op("xor", <<JNum(1), JNum(2)>>)}

LogicalNodes ==
  {O1(key, JArr(kids)) : key \in {"and", "or", "&&", "||"}, kids \in SeqsUpTo(KidPool, MaxKids)}
  \cup {O1(key, JArr(<<kid>>)) : key \in {"!", "not"}, kid \in KidPool}
  \cup {O1(key, kid) : key \in {"!", "not"}, kid \in {Op("==", <<Var("age"), JNum(18)>>)}}
  \cup {O1(key, JArr(<<O1("not", JArr(<<O1("xor", a)>>))>>)) :
          key \in {"and", "or"}, a \in {JArr(<<JNum(1), JNum(2)>>), JNum(0)}}

LogicInputs ==
  ComparisonLeaves \cup InLeaves \cup AnchorLeaves \cup RangeLeaves \cup FieldlessLeaves
  \cup UnknownLeaves \cup NonObjects \cup LogicalNodes \cup Primitives \cup PrimitiveParents
  \cup DottedLeaves

\* -- doc-schema documents -------------------------------------------------

Opt(S) == S \cup {Undef}

\* Leaf fragments carrying any combination of the shape keys.
LeafSchemas ==
  {JObj(Present(<< <<"$ref", ref>>, <<"type", type>>, <<"const", const>>,
                  <<"minimum", min>>, <<"maximum", max>>,
                  <<"exclusiveMinimum", xmin>>, <<"exclusiveMaximum", xmax>>,
                  <<"enum", enum>>, <<"pattern", pattern>> >>)) :
     ref \in Opt({JStr("#/properties/age")}),
     type \in Opt({JStr("number"), JStr("string"), JStr("boolean"), JStr("integer")}),
     const \in Opt({JNum(18)}),
     min \in Opt({JNum(0)}),
     max \in Opt({JNum(100)}),
     xmin \in Opt({JNum(1)}),
     xmax \in Opt({JNum(99)}),
     enum \in Opt({Statuses}),
     pattern \in Opt({JStr("^admin"), JStr("admin$")})}

FieldNames == {"age", "status", "value"}

\* Sub-schemas of `properties`: leaves, the boolean schema, the empty
\* schema, a nested `properties`, a logical node, and null.
SubSchemas ==
  {O1("const", JNum(18)),
   O1("enum", Statuses),
   JObj(<< <<"type", JStr("number")>>, <<"minimum", JNum(18)>> >>),
   JObj(<< <<"type", JStr("number")>>, <<"minimum", JNum(0)>>, <<"maximum", JNum(100)>> >>),
   O1("properties", O1("inner", O1("const", JNum(1)))),
   O1("allOf", JArr(<<O1("const", JNum(1)), O1("const", JNum(2))>>)),
   JObj(<<>>),
   JTrue}
SubSchemasOrNull == SubSchemas \cup {JNull}

PropertyLists ==
  {<<>>} \cup
  {[i \in 1..Len(keys) |-> <<keys[i], subs[i]>>] :
     <<keys, subs>> \in {ks \in (SeqsUpTo(FieldNames, MaxProps) \X SeqsUpTo(SubSchemasOrNull, MaxProps)) :
                           Len(ks[1]) = Len(ks[2]) /\ Distinct(ks[1])}}

Envelope == << <<"$schema", JStr(DraftUri)>>, <<"type", JStr("object")>> >>

PropertiesSchemas ==
  {JObj(env \o << <<"properties", JObj(props)>> >>) : env \in {<<>>, Envelope}, props \in PropertyLists}

AgeAtLeast18 ==
  O1("properties", O1("age", JObj(<< <<"type", JStr("number")>>, <<"minimum", JNum(18)>> >>)))
StatusIn == O1("properties", O1("status", O1("enum", Statuses)))

SchemaKidPool == {AgeAtLeast18, StatusIn, JObj(<<>>), JTrue, JNull}

LogicalSchemas ==
  {JObj(env \o << <<key, JArr(kids)>> >>) :
     env \in {<<>>, Envelope}, key \in {"allOf", "anyOf"},
     kids \in {<<>>} \cup SeqsUpTo(SchemaKidPool, MaxKids)}
  \cup {O1("not", x) : x \in {O1("const", JNum(18)), O1("enum", Statuses), JTrue, JNull, AgeAtLeast18}}

OtherSchemas ==
  {JTrue, JFalse, JNull, JNum(5), JArr(<<>>),
   JObj(<< <<"type", JStr("array")>>, <<"items", O1("enum", Statuses)>> >>),
   JObj(<< <<"type", JStr("array")>>, <<"items", O1("const", JNum(1))>> >>),
   JObj(<< <<"type", JStr("array")>>, <<"items", JArr(<<O1("const", JNum(1))>>)>> >>),
   O1("pattern", JStr("admin")),
   O1("$ref", JStr("#/properties/a/properties/b")),
   O1("$ref", JStr("#/definitions/x")),
   O1("$ref", JStr("x/#/properties/y")),
   O1("properties", O1("status", O1("not", O1("enum", Statuses)))),
   FieldClause(JStr("status"), O1("not", O1("enum", Statuses))),
   O1("$ref", JNum(5)),
   O1("allOf", O1("const", JNum(1))),
   O1("pattern", JNum(5))}

\* Fragments exhibiting several of the later shapes at once.
MixedSchemas ==
  {JObj(Present(<< <<"type", type>>, <<"enum", enum>>, <<"pattern", pattern>>,
                  <<"allOf", allOf>>, <<"anyOf", anyOf>>, <<"not", not>>,
                  <<"properties", properties>>, <<"items", items>> >>)) :
     type \in Opt({JStr("boolean"), JStr("array")}),
     enum \in Opt({Statuses}),
     pattern \in Opt({JStr("^admin"), JStr("admin")}),
     allOf \in Opt({JArr(<<AgeAtLeast18>>)}),
     anyOf \in Opt({JArr(<<StatusIn>>)}),
     not \in Opt({O1("const", JNum(18))}),
     properties \in Opt({O1("age", O1("const", JNum(18)))}),
     items \in Opt({O1("enum", Statuses), O1("const", JNum(1))})}

\* Sub-schemas that mention "value" as a literal, refer to a real field
\* named "value", or do neither.
ValueSubSchemas ==
  {O1("const", JStr("value")), O1("enum", JArr(<<JStr("value")>>)), O1("const", JNum(18)),
   O1("$ref", JStr("#/properties/value")), O1("$ref", JStr("#/properties/other")),
   O1("properties", O1("value", O1("const", JNum(1)))),
   O1("allOf", JArr(<<O1("const", JNum(1)), O1("$ref", JStr("#/properties/value"))>>))}

\* A clause on one field: the sub-schema under `properties`, the field
\* under `required`.
ValueSchemas ==
  {FieldClause(JStr(key), sub) : key \in {"age", "value"}, sub \in ValueSubSchemas}

SchemaInputs ==
  LeafSchemas \cup PropertiesSchemas \cup LogicalSchemas \cup OtherSchemas \cup MixedSchemas
  \cup ValueSchemas

\* -- conditional schemas (the flat-rule builder's documents) ---------------

FlatLeaf(field, leaf) ==
  JObj(<< <<"properties", O1(field, leaf)>>, <<"required", JArr(<<JStr(field)>>)>> >>)

ClausePool ==
  {FlatLeaf("age", O1("const", JNum(18))),
   FlatLeaf("age", JObj(<< <<"type", JStr("number")>>, <<"minimum", JNum(18)>> >>)),
   FlatLeaf("email", JObj(<< <<"type", JStr("string")>>, <<"pattern", JStr("^admin.*")>> >>)),
   FlatLeaf("email", JObj(<< <<"type", JStr("string")>>, <<"pattern", JStr(".*admin$")>> >>)),
   FlatLeaf("age", JObj(<< <<"type", JStr("number")>>, <<"exclusiveMinimum", JNum(18)>> >>)),
   FlatLeaf("age", JObj(<< <<"type", JStr("number")>>, <<"exclusiveMaximum", JNum(65)>> >>)),
   FlatLeaf("age", JObj(<< <<"type", JStr("number")>>, <<"maximum", JNum(65)>> >>)),
   FlatLeaf("age", JObj(<< <<"type", JStr("number")>>, <<"minimum", JNum(18)>>,
                           <<"maximum", JNum(65)>> >>)),
   FlatLeaf("age", O1("not", O1("const", JNum(18)))),
   FlatLeaf("status", O1("enum", Statuses)),
   FlatLeaf("status", O1("not", O1("enum", Statuses))),
   O1("allOf", JArr(<<FlatLeaf("age", O1("const", JNum(18)))>>)),
   O1("anyOf", JArr(<<FlatLeaf("status", O1("enum", Statuses))>>))}

Clauses == {<<>>} \cup SeqsUpTo(ClausePool, MaxKids)

ConditionalSchemas ==
  {JObj(<< <<"if", JObj(<< <<"allOf", JArr(all)>>, <<"anyOf", JArr(any)>> >>)>>,
          <<"then", O1("required", JArr(<<JStr("parent")>>))>> >>) :
     <<all, any>> \in {c \in Clauses \X Clauses : c[1] = <<>> \/ c[2] = <<>>}}
  \cup {O1("then", O1("required", JArr(<<JStr("parent")>>)))}

\* -- flat-rule groups ------------------------------------------------------

Rule(field, operator, value) ==
  JObj(<< <<"field", JStr(field)>>, <<"operator", JStr(operator)>>, <<"value", value>> >>)

\* Rules over the operators of both builders, a rule with an operator
\* neither knows, and `between` rules with and without a 2-element value.
RulePool ==
  {Rule("age", "==", JNum(18)), Rule("age", "==", JStr("18")), Rule("age", "!=", JNum(18)),
   Rule("age", ">=", JNum(18)), Rule("age", "gt", JNum(18)), Rule("age", "<", JStr("65")),
   Rule("age", "between", JArr(<<JNum(18), JNum(65)>>)),
   Rule("age", "between", JNum(18)),
   Rule("age", "between", JArr(<<JNum(18)>>)),
   Rule("email", "beginsWith", JStr("admin")), Rule("email", "endsWith", JStr("admin")),
   Rule("status", "in", Statuses), Rule("status", "in", JStr("active, pending")),
   Rule("status", "notIn", Statuses),
   Rule("age", ">", JNum(18)), Rule("age", "<=", JNum(65)),
   Rule("email", "startsWith", JStr("admin")),
   Rule("age", "xor", JNum(1))}

RuleLists == {<<>>} \cup SeqsUpTo(RulePool, MaxRules)

Queries ==
  {QueryStructure(combinator, rules) : combinator \in {"and", "or"}, rules \in RuleLists}
  \cup {QueryStructure("xor", <<Rule("age", "==", JNum(18))>>),
         JObj(<< <<"combinator", JStr("and")>>,
                 <<"rules", JArr(<<Rule("age", "==", JNum(18))>>)>>,
                 <<"not", JTrue>> >>),
         O1("combinator", JStr("and"))}

\* The field a conditional schema makes required.
ParentFields == {"parent", "other"}

\* -- field paths ----------------------------------------------------------

Segments == {"a", "b", "properties", "", "a/properties/b"}
Paths == SeqsUpTo(Segments, MaxSegs)

\* path.join("."): the dotted rendering of a path handed to convertVar.
Dotted(path) == JStr(Join(path, "."))
PathDoc(path) == JArr([i \in 1..Len(path) |-> JStr(path[i])])

-----------------------------------------------------------------------------
(* The state machine: a document and the conversions applied to it *)

Init ==
  /\ trail = <<>>
  /\ \/ /\ kind = "logic"
        /\ orig \in LogicInputs
        /\ doc = orig
     \/ /\ kind = "schema"
        /\ orig \in SchemaInputs
        /\ doc = orig
     \/ /\ kind = "cond"
        /\ orig \in ConditionalSchemas
        /\ doc = orig
     \/ /\ kind = "flat"
        /\ orig \in Queries
        /\ doc = orig
     \/ /\ kind = "path"
        /\ \E path \in Paths :
             /\ orig = PathDoc(path)
             /\ doc = Dotted(path)

\* A conversion's outcome: its result and representation, or the exception.
Step(name, result, to) ==
  /\ Len(trail) < MaxSteps
  /\ doc' = result
  /\ kind' = IF IsErr(result) THEN "error" ELSE to
  /\ trail' = Append(trail, name)
  /\ UNCHANGED orig

Convert ==
  /\ kind = "logic"
  /\ Step("convert", convert(doc), "schema")

WrapSchema ==
  /\ kind = "schema"
  /\ Len(trail) > 0
  /\ trail[Len(trail)] = "convert"
  /\ Step("wrapSchema", wrapSchema(doc), "schema")

JsonLogicToSchema_Convert ==
  /\ kind = "logic"
  /\ Step("JsonLogicToSchema.convert", JsonLogicToSchema_convert(doc), "schema")

JsonLogicToSchema_WrapSchema ==
  /\ kind = "schema"
  /\ Len(trail) > 0
  /\ trail[Len(trail)] = "JsonLogicToSchema.convert"
  /\ Step("JsonLogicToSchema.wrapSchema", JsonLogicToSchema_wrapSchema(doc), "schema")

ConvertSchema ==
  /\ kind = "schema"
  /\ Step("convertSchema", convertSchema(doc), "logic")

ConvertVar ==
  /\ kind = "path"
  /\ Step("convertVar", convertVar(doc), "schema")

TransformJsonSchemaToRules ==
  /\ kind = "cond"
  /\ Step("transformJsonSchemaToRules", transformJsonSchemaToRules(doc), "flat")

BuildFieldJsonSchema ==
  /\ kind = "flat"
  /\ \E parentFieldName \in ParentFields :
       Step("buildFieldJsonSchema", buildFieldJsonSchema(parentFieldName, doc), "cond")

TranslateRulesToJSONSchema ==
  /\ kind = "flat"
  /\ \E fieldToMakeRequired \in ParentFields :
       Step("translateRulesToJSONSchema",
            translateRulesToJSONSchema(doc, fieldToMakeRequired), "conditional")

Next ==
  \/ Convert
  \/ WrapSchema
  \/ JsonLogicToSchema_Convert
  \/ JsonLogicToSchema_WrapSchema
  \/ ConvertSchema
  \/ ConvertVar
  \/ TransformJsonSchemaToRules
  \/ BuildFieldJsonSchema
  \/ TranslateRulesToJSONSchema

Spec == Init /\ [][Next]_vars

-----------------------------------------------------------------------------
(* Properties *)

\* The single operator key and argument of a one-member object.
KeyOf(j) == j[2][1][1]
ArgOf(j) == j[2][1][2]
IsOp(j) == IsObj(j) /\ Len(j[2]) = 1

\* A field name without a dot.
SimpleField(v) == IsOp(v) /\ KeyOf(v) = "var" /\ IsStr(ArgOf(v)) /\ ~Includes(ArgOf(v)[2], ".")

\* A 2-element `>=` leaf on a number, or a 2-element `in` leaf on a list
\* of strings, over a simple field name.
IsGteOrInLeaf(j) ==
  /\ IsOp(j)
  /\ KeyOf(j) \in {">=", "in"}
  /\ IsArr(ArgOf(j))
  /\ Len(ArgOf(j)[2]) = 2
  /\ SimpleField(ArgOf(j)[2][1])
  /\ IF KeyOf(j) = ">=" THEN IsNum(ArgOf(j)[2][2])
     ELSE /\ IsArr(ArgOf(j)[2][2])
          /\ \A i \in 1..Len(ArgOf(j)[2][2][2]) : IsStr(ArgOf(j)[2][2][2][i])

IsAndOrOfLeaves(j) ==
  /\ IsOp(j)
  /\ KeyOf(j) \in {"and", "or"}
  /\ IsArr(ArgOf(j))
  /\ Len(ArgOf(j)[2]) >= 2
  /\ \A i \in 1..Len(ArgOf(j)[2]) : IsGteOrInLeaf(ArgOf(j)[2][i])

EndToEndLogic ==
  Op("and", <<Op(">=", <<Var("age"), JNum(18)>>), Op("in", <<Var("status"), Statuses>>)>>)

EndToEndSchema ==
  JObj(<< <<"$schema", JStr("http://json-schema.org/draft-07/schema#")>>,
          <<"type", JStr("object")>>,
          <<"allOf", JArr(<<
             O1("properties", O1("age", JObj(<< <<"type", JStr("number")>>,
                                                <<"minimum", JNum(18)>> >>))),
             O1("properties", O1("status", O1("enum", Statuses)))>>)>> >>)

\* C1: the end-to-end example converts and wraps to the documented schema,
\* and every and/or of two or more 2-element >= / in leaves on simple field
\* names, converted, wrapped and converted back, is the document it was.
C1_EndToEndRoundTrip ==
  /\ (orig = EndToEndLogic /\ trail = <<"convert", "wrapSchema">>) => doc = EndToEndSchema
  /\ (IsAndOrOfLeaves(orig) /\ trail = <<"convert", "wrapSchema", "convertSchema">>)
       => doc = orig

C1_Witness ==
  /\ orig = EndToEndLogic
  /\ trail = <<"convert", "wrapSchema", "convertSchema">>
  /\ doc = EndToEndLogic

SingleComparisons == {Op(op, <<Var("age"), JNum(18)>>) : op \in CanonicalComparisons}

\* C2: for each of ==, !=, >, >=, <, <=, the leaf {op: [{var: "age"}, 18]}
\* converted to a schema and back is the same leaf.
C2_SingleComparisonRoundTrip ==
  (orig \in SingleComparisons /\ trail = <<"convert", "convertSchema">>) => doc = orig

\* A schema that is only a `properties` object, bare or in the
\* $schema / type: "object" envelope, whose entries are schemas (objects or
\* booleans).
IsPropertiesSchema(j) ==
  /\ IsObj(j)
  /\ Has(j, "properties")
  /\ IsObj(Get(j, "properties"))
  /\ \A i \in 1..Len(j[2]) : j[2][i][1] \in {"$schema", "type", "properties"}
  /\ Has(j, "type") => Get(j, "type") = JStr("object")
  /\ \A i \in 1..Len(Get(j, "properties")[2]) :
       LET sub == Get(j, "properties")[2][i][2] IN IsObj(sub) \/ IsBool(sub)

\* What each sub-schema of the input documents says about the field `key`.
ExpectedCondition(key, sub) ==
  CASE sub = O1("const", JNum(18)) -> Op("==", <<Var(key), JNum(18)>>)
    [] sub = O1("enum", Statuses) -> Op("in", <<Var(key), Statuses>>)
    [] sub = JObj(<< <<"type", JStr("number")>>, <<"minimum", JNum(18)>> >>)
         -> Op(">=", <<Var(key), JNum(18)>>)
    [] sub = JObj(<< <<"type", JStr("number")>>, <<"minimum", JNum(0)>>,
                     <<"maximum", JNum(100)>> >>)
         -> Op("<=", <<JNum(0), Var(key), JNum(100)>>)
    [] sub = O1("properties", O1("inner", O1("const", JNum(1))))
         -> Op("==", <<Var("inner"), JNum(1)>>)
    [] sub = O1("not", O1("enum", Statuses)) -> O1("!", Op("in", <<Var(key), Statuses>>))
    [] sub = O1("allOf", JArr(<<O1("const", JNum(1)), O1("const", JNum(2))>>))
         -> Op("and", <<Op("==", <<Var(key), JNum(1)>>), Op("==", <<Var(key), JNum(2)>>)>>)
    [] OTHER -> JObj(<<>>)

\* C3: a schema whose `properties` has exactly one entry converts to that
\* entry's predicate, unwrapped; with two or more entries it converts to
\* {"and": [p1, ..., pn]}, one predicate per entry in entry order.
C3_PropertiesUnwrapOrAnd ==
  (IsPropertiesSchema(orig) /\ trail = <<"convertSchema">>) =>
    LET entries == Get(orig, "properties")[2]
        expected == [i \in 1..Len(entries) |-> ExpectedCondition(entries[i][1], entries[i][2])]
    IN /\ Len(entries) = 1 => doc = expected[1]
       /\ Len(entries) >= 2 => doc = Op("and", expected)

C3_Witness ==
  /\ orig = O1("properties", O1("age", O1("const", JNum(18))))
  /\ trail = <<"convertSchema">>
  /\ doc = Op("==", <<Var("age"), JNum(18)>>)

\* The 3-argument range node over the placeholder field.
RangeNode(min, max) == Op("<=", <<min, Var("value"), max>>)

IsRangeNode(j) ==
  /\ IsOp(j)
  /\ IsArr(ArgOf(j))
  /\ Len(ArgOf(j)[2]) = 3
  /\ ArgOf(j)[2][2] = Var("value")

\* A root schema on which neither $ref nor const takes precedence.
NoRefNoConst(j) == IsObj(j) /\ ~Truthy(Get(j, "$ref")) /\ ~Has(j, "const")

AdminAnchors == {Op(op, <<Var("email"), JStr("admin")>>) : op \in {"startsWith", "endsWith"}}

\* C5: {"startsWith": [{var: "email"}, "admin"]} converts to the schema
\* with pattern "^admin", and a startsWith / endsWith leaf on the literal
\* "admin", converted to a schema and back, is the same leaf.
C5_AnchorRoundTrip ==
  /\ (orig = Op("startsWith", <<Var("email"), JStr("admin")>>) /\ trail = <<"convert">>)
       => doc = O1("properties", O1("email", JObj(<< <<"type", JStr("string")>>,
                                                      <<"pattern", JStr("^admin")>> >>)))
  /\ (orig \in AdminAnchors /\ trail = <<"convert", "convertSchema">>) => doc = orig

\* The segments of the input path.
SegmentsOf(pathDoc) == [i \in 1..Len(pathDoc[2]) |-> pathDoc[2][i][2]]

\* The segments of the dotted path the converter returned, or <<>> when it
\* returned no `var` node.
ResolvedSegments(j) ==
  IF IsOp(j) /\ KeyOf(j) = "var" /\ IsStr(ArgOf(j)) THEN Split(ArgOf(j)[2], ".") ELSE <<>>

DotFree(segs) == \A i \in 1..Len(segs) : ~Includes(segs[i], ".")
SlashFree(segs) == \A i \in 1..Len(segs) : ~Includes(segs[i], "/")

\* C6 as stated: every non-empty list of dot-free segments, rendered as a
\* dotted path, turned into a $ref by convertVar and resolved by the
\* schema converter, comes back segment for segment.
C6_DotFreePathIdentity ==
  (trail = <<"convertVar", "convertSchema">> /\ DotFree(SegmentsOf(orig)))
    => ResolvedSegments(doc) = SegmentsOf(orig)

\* C6: every non-empty list of segments that contain neither "." nor "/"
\* (segments named "properties" included) comes back segment for segment.
C6_SlashFreePathIdentity ==
  (/\ trail = <<"convertVar", "convertSchema">>
   /\ DotFree(SegmentsOf(orig))
   /\ SlashFree(SegmentsOf(orig)))
    => /\ doc = O1("var", JStr(Join(SegmentsOf(orig), ".")))
       /\ ResolvedSegments(doc) = SegmentsOf(orig)

C6_Witness ==
  /\ orig = JArr(<<JStr("a"), JStr("properties"), JStr("b")>>)
  /\ trail = <<"convertVar", "convertSchema">>
  /\ doc = O1("var", JStr("a.properties.b"))

LogicalKeys == {"and", "or", "&&", "||", "!", "not"}

\* The first non-operator key the converter meets in a document: at the
\* root, or in the children of and / or / not in evaluation order; "" if
\* it meets none.
RECURSIVE OffendingKey(_)
OffendingKey(j) ==
  IF ~IsOp(j) THEN ""
  ELSE IF KeyOf(j) \in UnknownOperators THEN KeyOf(j)
  ELSE IF KeyOf(j) \in LogicalKeys /\ IsArr(ArgOf(j))
    THEN LET kids == [i \in 1..Len(ArgOf(j)[2]) |-> OffendingKey(ArgOf(j)[2][i])]
         IN IF \E i \in 1..Len(kids) : kids[i] # ""
              THEN kids[CHOOSE i \in 1..Len(kids) :
                          kids[i] # "" /\ \A h \in 1..(i - 1) : kids[h] = ""]
              ELSE ""
  ELSE ""

\* C7: a document whose first key, at the root or under and / or / not, is
\* no supported operator fails with the unsupported-operator error naming
\* that key.
C7_UnknownOperatorNamed ==
  (trail = <<"convert">> /\ OffendingKey(orig) # "")
    => doc = Err("Error", "Unsupported operator: " \o OffendingKey(orig))

\* A clause of the `if` that is itself an allOf / anyOf instead of a
\* `properties` leaf.
IsNestedClause(c) == IsObj(c) /\ ~Has(c, "properties") /\ (Has(c, "allOf") \/ Has(c, "anyOf"))

HasNestedClause(schema) ==
  \E key \in {"allOf", "anyOf"} :
    LET list == Get(Get(schema, "if"), key)
    IN IsArr(list) /\ \E i \in 1..Len(list[2]) : IsNestedClause(list[2][i])

\* C8: a conditional schema whose `if` clauses contain a nested allOf /
\* anyOf is rejected with an error of the converter's own (not a rule list,
\* not a runtime TypeError).
C8_NestingRejected ==
  (trail = <<"transformJsonSchemaToRules">> /\ HasNestedClause(orig))
    => (IsErr(doc) /\ doc[2][1] # "TypeError")

\* C9: for every alias key and every argument, the converter returns for
\* {alias: args} what it returns for {canonical: args}.
C9_AliasesUnified ==
  (trail = <<"convert">> /\ IsOp(orig) /\ KeyOf(orig) \in DOMAIN AliasOf)
    => doc = convert(O1(AliasOf[KeyOf(orig)], ArgOf(orig)))

\* The doc-schema grammar: boolean schemas and objects whose $ref and
\* pattern are strings and whose allOf / anyOf / not / properties / items
\* hold schemas, null or non-object values.
RECURSIVE InGrammar(_)
InGrammar(j) ==
  \/ IsBool(j)
  \/ /\ IsObj(j)
     /\ Has(j, "$ref") => IsStr(Get(j, "$ref"))
     /\ Has(j, "pattern") => IsStr(Get(j, "pattern"))
     /\ \A key \in {"allOf", "anyOf"} :
          Has(j, key) =>
            /\ IsArr(Get(j, key))
            /\ \A i \in 1..Len(Get(j, key)[2]) :
                 LET sub == Get(j, key)[2][i] IN ~IsObj(sub) \/ InGrammar(sub)
     /\ Has(j, "properties") =>
          /\ IsObj(Get(j, "properties"))
          /\ \A i \in 1..Len(Get(j, "properties")[2]) :
               LET sub == Get(j, "properties")[2][i][2] IN ~IsObj(sub) \/ InGrammar(sub)
     /\ \A key \in {"not", "items"} :
          Has(j, key) => (~IsObj(Get(j, key)) \/ InGrammar(Get(j, key)))

\* C10: the schema converter never raises on a document of the doc-schema
\* grammar.
C10_DecodeTotal ==
  (trail = <<"convertSchema">> /\ InGrammar(orig)) => ~IsErr(doc)

\* The schema fragment the spec gives a non-object value.
ConstOf(v) == O1("const", v)

\* The one child of a logical node over a single non-object value.
OnlyChild(j) == ArgOf(j)[2][1]

IsPrimitiveParent(j) ==
  /\ IsOp(j)
  /\ KeyOf(j) \in {"and", "or", "not"}
  /\ IsArr(ArgOf(j))
  /\ Len(ArgOf(j)[2]) = 1
  /\ OnlyChild(j) \in Primitives

\* C11: the logic converter applied to a value that is no object (a
\* number, a boolean, a string, null), at the root or as the child of
\* and / or / not, returns {const: v} for it and does not raise.
C11_NonObjectIsConst ==
  /\ (trail = <<"convert">> /\ orig \in Primitives) => doc = ConstOf(orig)
  /\ (trail = <<"convert">> /\ IsPrimitiveParent(orig)) =>
       doc = (CASE KeyOf(orig) = "and" -> Op("allOf", <<ConstOf(OnlyChild(orig))>>)
                [] KeyOf(orig) = "or" -> Op("anyOf", <<ConstOf(OnlyChild(orig))>>)
                [] OTHER -> O1("not", ConstOf(OnlyChild(orig))))

\* The fragment names the field somewhere: as a key of a `properties`
\* object, at any depth.
RECURSIVE Mentions(_, _)
Mentions(fragment, field) ==
  CASE IsObj(fragment) ->
         \/ (Has(fragment, "properties") /\ IsObj(Get(fragment, "properties"))
               /\ Has(Get(fragment, "properties"), field))
         \/ \E i \in 1..Len(fragment[2]) : Mentions(fragment[2][i][2], field)
    [] IsArr(fragment) -> \E i \in 1..Len(fragment[2]) : Mentions(fragment[2][i], field)
    [] OTHER -> FALSE

\* The rules of a flat-rule group that has a list of rules.
RulesOf(query) == Get(query, "rules")[2]
HasRules(query) == IsObj(query) /\ IsArr(Get(query, "rules"))

\* The clauses of the `if` of a conditional schema: the non-empty one of
\* allOf / anyOf, under `not` when the group is negated.
ClausesOf(schema) ==
  LET if == Get(schema, "if")
      group == IF Has(if, "not") THEN Get(if, "not") ELSE if
      all == Get(group, "allOf")
      any == Get(group, "anyOf")
  IN IF IsArr(all) /\ Len(all[2]) > 0 THEN all[2]
     ELSE IF IsArr(any) THEN any[2]
     ELSE IF IsArr(all) THEN all[2]
     ELSE <<>>

\* One clause per rule, in rule order, each naming its rule's field.
EveryRuleRepresented(query, schema) ==
  /\ Len(ClausesOf(schema)) = Len(RulesOf(query))
  /\ \A i \in 1..Len(RulesOf(query)) :
       Mentions(ClausesOf(schema)[i], Get(RulesOf(query)[i], "field")[2])

\* C12: a conversion either raises or returns a document in which every
\* input node is represented: each rule of a flat-rule group has its
\* clause in the schema either builder returns, and each child of an
\* and / or has its non-empty fragment in the schema the logic converter
\* returns.
C12_AllOrNothing ==
  /\ (trail = <<"buildFieldJsonSchema">> /\ HasRules(orig) /\ ~IsErr(doc))
       => EveryRuleRepresented(orig, doc)
  /\ (trail = <<"translateRulesToJSONSchema">> /\ HasRules(orig) /\ ~IsErr(doc))
       => EveryRuleRepresented(orig, doc)
  /\ (trail = <<"convert">> /\ orig \in LogicalNodes /\ IsArr(ArgOf(orig)) /\ ~IsErr(doc))
       => /\ IsArr(ArgOf(doc)) => Len(ArgOf(doc)[2]) = Len(ArgOf(orig)[2])
          /\ IsArr(ArgOf(doc)) => \A i \in 1..Len(ArgOf(doc)[2]) : ArgOf(doc)[2][i] # Empty
          /\ ArgOf(doc) # Empty

\* A schema whose $ref is a string that does not start with the
\* properties prefix.
HasForeignRef(j) ==
  /\ IsObj(j)
  /\ IsStr(Get(j, "$ref"))
  /\ ~StartsWith(Get(j, "$ref")[2], "#/properties/")

\* C14: the schema converter applied to a schema whose $ref does not start
\* with "#/properties/" fails instead of returning a `var` node.
C14_ForeignRefRejected ==
  (trail = <<"convertSchema">> /\ HasForeignRef(orig)) => IsErr(doc)

\* A schema that constrains a field by not: {enum: [...]}.
HasNegatedEnum(j) ==
  /\ IsObj(j)
  /\ IsObj(Get(j, "properties"))
  /\ \E i \in 1..Len(Get(j, "properties")[2]) :
       LET sub == Get(j, "properties")[2][i][2]
       IN IsObj(sub) /\ IsObj(Get(sub, "not")) /\ Has(Get(sub, "not"), "enum")

\* C15: converting to rule logic a schema in which a field is constrained
\* by not: {enum: [...]} fails rather than emitting a rule-logic node.
C15_NegatedEnumRejected ==
  (trail = <<"convertSchema">> /\ HasNegatedEnum(orig)) => IsErr(doc)

\* The allOf / anyOf key a combinator selects, and the other one.
KeyFor(query) == IF Get(query, "combinator") = JStr("and") THEN "allOf" ELSE "anyOf"
OtherKeyFor(query) == IF KeyFor(query) = "allOf" THEN "anyOf" ELSE "allOf"

\* The clause of a rule: {properties: {field: leaf}, required: [field]},
\* or the empty fragment.
IsClauseOf(clause, rule) ==
  \/ clause = Empty
  \/ /\ IsObj(clause)
     /\ Len(clause[2]) = 2
     /\ IsOp(Get(clause, "properties"))
     /\ KeyOf(Get(clause, "properties")) = Get(rule, "field")[2]
     /\ Get(clause, "required") = JArr(<<Get(rule, "field")>>)

KeysOf(j) == [i \in 1..Len(j[2]) |-> j[2][i][1]]
KeySet(j) == {j[2][i][1] : i \in 1..Len(j[2])}

\* C17 as stated: the wrapped document has the draft-07 `$schema`, the
\* top-level type "object" and every key of the fragment, for every
\* fragment the logic converter produces.
C17_TypeAlwaysObject ==
  (trail = <<"convert", "wrapSchema">>) =>
    /\ Get(doc, "$schema") = JStr(DraftUri)
    /\ Get(doc, "type") = JStr("object")
    /\ KeySet(convert(orig)) \subseteq KeySet(doc)

\* C17: the wrapped document has the draft-07 `$schema` and every key of
\* the fragment with the fragment's value; its top-level type is "object"
\* when the fragment carries no `type`, and the fragment's own type
\* otherwise.
C17_FragmentOverridesType ==
  (trail = <<"convert", "wrapSchema">>) =>
    LET fragment == convert(orig)
    IN /\ Get(doc, "$schema") = JStr(DraftUri)
       /\ KeySet(doc) = {"$schema", "type"} \cup KeySet(fragment)
       /\ \A k \in KeySet(fragment) : Get(doc, k) = Get(fragment, k)
       /\ ~Has(fragment, "type") => Get(doc, "type") = JStr("object")

C17_Witness ==
  /\ trail = <<"convert", "wrapSchema">>
  /\ orig = Op(">", <<JNum(5), JNum(3)>>)
  /\ doc = JObj(<< <<"$schema", JStr(DraftUri)>>, <<"type", JStr("number")>>,
                   <<"exclusiveMinimum", JNum(3)>> >>)

\* The shapes of a fragment in their order of precedence.
ShapeOrder ==
  <<"$ref", "const", "range", "enum", "pattern", "allOf", "anyOf", "not", "properties",
    "boolean", "array">>

RangeKeys == {"minimum", "maximum", "exclusiveMinimum", "exclusiveMaximum"}

\* The keys a shape reads.
ShapeKeys(shape) ==
  CASE shape = "range" -> RangeKeys \cup {"type"}
    [] shape = "boolean" -> {"type"}
    [] shape = "array" -> {"type", "items"}
    [] OTHER -> {shape}

Anchored(j) ==
  /\ IsStr(Get(j, "pattern"))
  /\ (StartsWith(Get(j, "pattern")[2], "^") \/ EndsWith(Get(j, "pattern")[2], "$"))

ObjectItems(j) ==
  Get(j, "type") = JStr("array") /\ IsObj(Get(j, "items"))

\* The fragment exhibits the shape: its key is present (for the typed
\* shapes, the type is the shape's).
Exhibits(j, shape) ==
  CASE shape = "range" -> \E k \in RangeKeys : Has(j, k)
    [] shape = "pattern" -> Anchored(j)
    [] shape = "not" -> IsObj(Get(j, "not"))
    [] shape = "boolean" -> Get(j, "type") = JStr("boolean")
    [] shape = "array" -> ObjectItems(j)
    [] OTHER -> Has(j, shape)

\* The shape applies: as Exhibits, but a range key counts only under type
\* "number" or "string", and $ref, enum, allOf, anyOf and properties only
\* with a truthy value.
Applies(j, shape) ==
  CASE shape = "range" ->
         Get(j, "type") \in {JStr("number"), JStr("string")} /\ \E k \in RangeKeys : Has(j, k)
    [] shape \in {"$ref", "enum", "allOf", "anyOf", "properties"} -> Truthy(Get(j, shape))
    [] OTHER -> Exhibits(j, shape)

\* The keys of the fragment carry values of the types JSON Schema gives
\* them: $ref and pattern strings, allOf and anyOf lists, properties an
\* object.
WellTyped(j) ==
  /\ IsObj(j)
  /\ \A k \in {"$ref", "pattern"} : Has(j, k) => IsStr(Get(j, k))
  /\ \A k \in {"allOf", "anyOf"} : Has(j, k) => IsArr(Get(j, k))
  /\ Has(j, "properties") => IsObj(Get(j, "properties"))

\* The fragment cut down to the keys of one shape.
RECURSIVE RestrictMembers(_, _)
RestrictMembers(ms, keys) ==
  IF Len(ms) = 0 THEN <<>>
  ELSE (IF ms[1][1] \in keys THEN <<ms[1]>> ELSE <<>>) \o RestrictMembers(Tail(ms), keys)

Restrict(j, shape) == JObj(RestrictMembers(j[2], ShapeKeys(shape)))

FirstExhibited(j) ==
  ShapeOrder[CHOOSE i \in 1..Len(ShapeOrder) :
               /\ Exhibits(j, ShapeOrder[i])
               /\ \A h \in 1..(i - 1) : ~Exhibits(j, ShapeOrder[h])]

FirstApplying(j) ==
  ShapeOrder[CHOOSE i \in 1..Len(ShapeOrder) :
               /\ Applies(j, ShapeOrder[i])
               /\ \A h \in 1..(i - 1) : ~Applies(j, ShapeOrder[h])]

\* C18 as stated: the result for a fragment exhibiting several shapes is
\* the node of the first shape it exhibits in the order $ref, const, range
\* keys, enum, pattern, allOf, anyOf, not, properties, type boolean, type
\* array; the later shapes contribute nothing.
C18_FirstExhibitedShapeDecides ==
  (/\ trail = <<"convertSchema">>
   /\ WellTyped(orig)
   /\ \E i \in 1..Len(ShapeOrder) : Exhibits(orig, ShapeOrder[i]))
    => doc = convertSchema(Restrict(orig, FirstExhibited(orig)))

\* C18: the result is the node of the first shape that applies, in the
\* same order, where the range keys apply only under type "number" or
\* "string" and $ref, enum, allOf, anyOf and properties only with a truthy
\* value; the later shapes contribute nothing, and a fragment to which no
\* shape applies gives the empty predicate.
C18_FirstApplyingShapeDecides ==
  (trail = <<"convertSchema">> /\ WellTyped(orig)) =>
    IF \E i \in 1..Len(ShapeOrder) : Applies(orig, ShapeOrder[i])
      THEN doc = convertSchema(Restrict(orig, FirstApplying(orig)))
      ELSE doc = Empty

C18_Witness ==
  /\ trail = <<"convertSchema">>
  /\ orig = JObj(<< <<"type", JStr("number")>>, <<"const", JNum(18)>>, <<"minimum", JNum(0)>>,
                    <<"enum", Statuses>>, <<"pattern", JStr("^admin")>> >>)
  /\ doc = Op("==", <<Var("value"), JNum(18)>>)

HasAnyRangeKey(j) == \E k \in RangeKeys : Has(j, k)

\* A 2-argument comparison of the placeholder field with a bound.
Bound(op, j, key) == Op(op, <<Var("value"), Get(j, key)>>)

\* The node is the one the range keys of the fragment select: the
\* 3-argument range for both inclusive bounds, else >= for minimum, else <=
\* for maximum, else > for exclusiveMinimum, else < for exclusiveMaximum.
SelectedByRangeKeys(j, node) ==
  IF Has(j, "minimum") /\ Has(j, "maximum")
    THEN /\ IsRangeNode(node)
         /\ ArgOf(node)[2][1] = Get(j, "minimum")
         /\ ArgOf(node)[2][3] = Get(j, "maximum")
  ELSE IF Has(j, "minimum") THEN node = Bound(">=", j, "minimum")
  ELSE IF Has(j, "maximum") THEN node = Bound("<=", j, "maximum")
  ELSE IF Has(j, "exclusiveMinimum") THEN node = Bound(">", j, "exclusiveMinimum")
  ELSE node = Bound("<", j, "exclusiveMaximum")

\* C19 as stated: every fragment with at least one of minimum, maximum,
\* exclusiveMinimum, exclusiveMaximum (and no $ref or const) converts to
\* the node its range keys select, never to the empty predicate.
C19_RangeKeysAlwaysDecide ==
  (trail = <<"convertSchema">> /\ NoRefNoConst(orig) /\ HasAnyRangeKey(orig))
    => SelectedByRangeKeys(orig, doc)

\* C19: every fragment of type "number" or "string" with at least one of
\* minimum, maximum, exclusiveMinimum, exclusiveMaximum (and no $ref or
\* const) converts to the node its range keys select.
C19_TypedRangeKeysDecide ==
  (/\ trail = <<"convertSchema">>
   /\ NoRefNoConst(orig)
   /\ Get(orig, "type") \in {JStr("number"), JStr("string")}
   /\ HasAnyRangeKey(orig))
    => SelectedByRangeKeys(orig, doc)

C19_Witness ==
  /\ trail = <<"convertSchema">>
  /\ orig = JObj(<< <<"type", JStr("number")>>, <<"maximum", JNum(100)>>,
                    <<"exclusiveMinimum", JNum(1)>>, <<"exclusiveMaximum", JNum(99)>> >>)
  /\ doc = Op("<=", <<Var("value"), JNum(100)>>)

\* The clauses of the `if` the flat-rule decoder reads: allOf when it is
\* not empty, anyOf otherwise.
ReadClauses(schema) ==
  LET all == Get(Get(schema, "if"), "allOf")
      any == Get(Get(schema, "if"), "anyOf")
  IN IF IsArr(all) /\ Len(all[2]) > 0 THEN all[2]
     ELSE IF IsArr(any) THEN any[2]
     ELSE <<>>

\* A clause that is a leaf on one field, and its property schema.
IsFieldLeaf(clause) == IsObj(clause) /\ IsOp(Get(clause, "properties"))
LeafOf(clause) == ArgOf(Get(clause, "properties"))

\* The operator the claim gives a leaf property schema.
InferredOperator(leaf) ==
  IF \/ (Has(leaf, "minimum") /\ Has(leaf, "maximum"))
     \/ (Has(leaf, "exclusiveMinimum") /\ Has(leaf, "exclusiveMaximum")) THEN "between"
  ELSE IF Has(leaf, "minimum") THEN ">="
  ELSE IF Has(leaf, "exclusiveMaximum") THEN "<"
  ELSE IF Has(leaf, "maximum") THEN "<="
  ELSE IF Has(leaf, "exclusiveMinimum") THEN ">"
  ELSE IF PatternStarts(leaf) THEN "startsWith"
  ELSE IF PatternEnds(leaf) THEN "endsWith"
  ELSE IF Has(leaf, "enum") THEN "in"
  ELSE IF Has(leaf, "not") /\ Has(Get(leaf, "not"), "enum") THEN "notIn"
  ELSE IF Has(leaf, "not") THEN "!="
  ELSE "=="

\* The operand(s) under the key(s) that select the operator.
InferredValue(leaf) ==
  LET operator == InferredOperator(leaf)
  IN CASE operator = "between" ->
            IF Has(leaf, "minimum") /\ Has(leaf, "maximum")
              THEN JArr(<<Get(leaf, "minimum"), Get(leaf, "maximum")>>)
              ELSE JArr(<<Get(leaf, "exclusiveMinimum"), Get(leaf, "exclusiveMaximum")>>)
       [] operator = ">=" -> Get(leaf, "minimum")
       [] operator = "<" -> Get(leaf, "exclusiveMaximum")
       [] operator = "<=" -> Get(leaf, "maximum")
       [] operator = ">" -> Get(leaf, "exclusiveMinimum")
       [] operator = "startsWith" -> JStr(Slice(Get(leaf, "pattern")[2], 1, -2))
       [] operator = "endsWith" -> JStr(Slice(Get(leaf, "pattern")[2], 2, -1))
       [] operator = "in" -> Get(leaf, "enum")
       [] operator = "notIn" -> Get(Get(leaf, "not"), "enum")
       [] operator = "!=" -> Get(Get(leaf, "not"), "const")
       [] OTHER -> Get(leaf, "const")

\* C20: for every leaf property schema the flat-rule decoder infers the
\* first applicable operator in the order between, >=, <, <=, startsWith,
\* endsWith, in, notIn / !=, == (exclusiveMinimum alone as >,
\* not: {const} as !=, not: {enum} as notIn), and the value is the
\* operand under the key that selected the operator, both bounds for
\* between.
C20_OperatorInference ==
  (/\ trail = <<"transformJsonSchemaToRules">>
   /\ Len(ReadClauses(orig)) > 0
   /\ \A i \in 1..Len(ReadClauses(orig)) : IsFieldLeaf(ReadClauses(orig)[i]))
    => /\ ~IsErr(doc)
       /\ \A i \in 1..Len(ReadClauses(orig)) :
            LET leaf == LeafOf(ReadClauses(orig)[i])
                rule == Get(doc, "rules")[2][i]
            IN /\ Get(rule, "operator") = JStr(InferredOperator(leaf))
               /\ Get(rule, "value") = InferredValue(leaf)

\* -- C21 ---------------------------------------------------------------------

IsRangeLeaf(j, n) ==
  /\ IsOp(j)
  /\ KeyOf(j) \in RangeOperators
  /\ IsArr(ArgOf(j))
  /\ Len(ArgOf(j)[2]) = n
  /\ ArgOf(j)[2][IF n = 3 THEN 2 ELSE 1] \in Operands

\* The leaf of a converted comparison on x: the one entry of `properties`
\* when x is a field, the whole fragment when x is a constant.
LeafOn(x, schema) ==
  IF SimpleField(x)
    THEN IF KeySet(schema) = {"properties"} /\ KeySet(Get(schema, "properties")) = {ArgOf(x)[2]}
           THEN Get(Get(schema, "properties"), ArgOf(x)[2])
           ELSE Undef
  ELSE schema

\* C21: a 3-element [min, x, max] argument of >=, <=, between, gte or lte
\* converts to one leaf with minimum = min and maximum = max, under
\* properties[field] when x is a field and unwrapped when x is a constant;
\* a 2-element [x, v] argument of >= / gte converts to a leaf with only
\* minimum = v, and of <= / lte to a leaf with only maximum = v.
C21_ArityDispatch ==
  (trail = <<"convert">> /\ (IsRangeLeaf(orig, 3) \/ IsRangeLeaf(orig, 2))) =>
    LET a == ArgOf(orig)[2]
        leaf == LeafOn(a[IF Len(a) = 3 THEN 2 ELSE 1], doc)
    IN /\ IsObj(leaf)
       /\ Len(a) = 3 =>
            /\ Get(leaf, "minimum") = a[1]
            /\ Get(leaf, "maximum") = a[3]
       /\ (Len(a) = 2 /\ KeyOf(orig) \in {">=", "gte"}) =>
            /\ Get(leaf, "minimum") = a[2]
            /\ ~Has(leaf, "maximum")
       /\ (Len(a) = 2 /\ KeyOf(orig) \in {"<=", "lte"}) =>
            /\ Get(leaf, "maximum") = a[2]
            /\ ~Has(leaf, "minimum")

C21_Witness ==
  /\ trail = <<"convert">>
  /\ orig = Op("lte", <<JNum(0), JNum(50), JNum(100)>>)
  /\ Get(doc, "minimum") = JNum(0)
  /\ Get(doc, "maximum") = JNum(100)

\* -- C22 ---------------------------------------------------------------------

FirstConversion == {<<"convert">>, <<"JsonLogicToSchema.convert">>}

\* C22: in both copies of the converter the leaf of a 3-element <= has
\* type "string" and carries format "date" exactly when min is a string
\* that is a calendar date; the leaf of a 3-element >= or between has type
\* "number" and no format.
C22_DateHint ==
  (trail \in FirstConversion /\ IsRangeLeaf(orig, 3)) =>
    LET a == ArgOf(orig)[2]
        leaf == LeafOn(a[2], doc)
    IN /\ IsObj(leaf)
       /\ KeyOf(orig) \in {"<=", "lte"} =>
            /\ Get(leaf, "type") = JStr("string")
            /\ Has(leaf, "format") <=> a[1] \in CalendarDates
            /\ Has(leaf, "format") => Get(leaf, "format") = JStr("date")
       /\ KeyOf(orig) \in {">=", "gte", "between"} =>
            /\ Get(leaf, "type") = JStr("number")
            /\ ~Has(leaf, "format")

C22_Witness ==
  /\ trail = <<"JsonLogicToSchema.convert">>
  /\ orig = Op("<=", <<JStr("2024-13-45"), Var("day"), JStr("2024-12-31")>>)
  /\ doc = O1("properties", O1("day", JObj(<< <<"type", JStr("string")>>,
                                               <<"minimum", JStr("2024-13-45")>>,
                                               <<"maximum", JStr("2024-12-31")>> >>)))

\* -- C23 ---------------------------------------------------------------------

\* C23: decoding a leaf with minimum and maximum gives the 3-argument >=
\* when its type is "number" and the 3-argument <= when it is "string", so
\* a numeric range {">=": [min, {var: f}, max]} converted to a schema and
\* back is unchanged.
C23_RangeOperatorByType ==
  /\ (trail = <<"convertSchema">> /\ NoRefNoConst(orig)
       /\ Has(orig, "minimum") /\ Has(orig, "maximum")
       /\ Get(orig, "type") \in {JStr("number"), JStr("string")}) =>
        doc = Op(IF Get(orig, "type") = JStr("number") THEN ">=" ELSE "<=",
                 <<Get(orig, "minimum"), Var("value"), Get(orig, "maximum")>>)
  /\ (trail = <<"convert", "convertSchema">> /\ IsRangeLeaf(orig, 3)
       /\ KeyOf(orig) = ">=" /\ SimpleField(ArgOf(orig)[2][2])
       /\ IsNum(ArgOf(orig)[2][1])) =>
        doc = orig

\* -- C24 ---------------------------------------------------------------------

\* The predicate of a sub-schema of ValueSubSchemas on the field `key`
\* when exactly the decoder's placeholders are substituted.
SubstitutedCondition(key, sub) ==
  CASE sub = O1("const", JStr("value")) -> Op("==", <<Var(key), JStr("value")>>)
    [] sub = O1("enum", JArr(<<JStr("value")>>)) -> Op("in", <<Var(key), JArr(<<JStr("value")>>)>>)
    [] sub = O1("const", JNum(18)) -> Op("==", <<Var(key), JNum(18)>>)
    [] sub = O1("$ref", JStr("#/properties/value")) -> Var("value")
    [] sub = O1("$ref", JStr("#/properties/other")) -> Var("other")
    [] sub = O1("properties", O1("value", O1("const", JNum(1))))
         -> Op("==", <<Var("value"), JNum(1)>>)
    [] sub = O1("allOf", JArr(<<O1("const", JNum(1)), O1("$ref", JStr("#/properties/value"))>>))
         -> Op("and", <<Op("==", <<Var(key), JNum(1)>>), Var("value")>>)

\* C24: under a `properties` entry every placeholder {var: "value"} the
\* decoder introduced is replaced by {var: key} at any depth, and nothing
\* else changes: a literal operand "value" and a reference to a real field
\* named "value" (from a nested `properties` key or a $ref) stay as they
\* are.
C24_OnlyPlaceholdersSubstituted ==
  (trail = <<"convertSchema">> /\ orig \in ValueSchemas) =>
    LET entry == Get(orig, "properties")[2][1]
    IN doc = SubstitutedCondition(entry[1], entry[2])

\* -- C25 ---------------------------------------------------------------------

\* One `properties` level per segment around the leaf.
RECURSIVE NestedProperties(_, _)
NestedProperties(segments, leaf) ==
  IF Len(segments) = 0 THEN leaf
  ELSE O1("properties", O1(Head(segments), NestedProperties(Tail(segments), leaf)))

\* The leaf fragment of a DottedLeaves comparison.
LeafFragment(op, operand) ==
  CASE op = "==" -> O1("const", operand)
    [] op = ">=" -> JObj(<< <<"type", JStr("number")>>, <<"minimum", operand>> >>)
    [] op = "in" -> O1("enum", operand)

\* C25: a leaf on {var: "a.b"} is embedded as
\* {properties: {a: {properties: {b: leaf}}}}, one `properties` level per
\* segment of the field; a single-segment field gets exactly one level.
C25_NestedProperties ==
  (trail = <<"convert">> /\ orig \in DottedLeaves) =>
    LET a == ArgOf(orig)[2]
    IN doc = NestedProperties(Split(ArgOf(a[1])[2], "."), LeafFragment(KeyOf(orig), a[2]))

\* -- C26 ---------------------------------------------------------------------

\* A schema whose only key besides the envelope is `key`.
IsLogicalSchema(j, key) ==
  /\ IsObj(j)
  /\ key \in KeySet(j)
  /\ KeySet(j) \subseteq {"$schema", "type", key}
  /\ Has(j, "type") => Get(j, "type") = JStr("object")

IsSchemaList(list) ==
  IsArr(list) /\ \A i \in 1..Len(list[2]) : IsObj(list[2][i]) \/ IsBool(list[2][i])

ObjectEntries(list) == SelectSeq(list[2], IsObj)

\* The predicates of the object-valued entries of an allOf / anyOf list, in
\* order.
ChildPredicates(list) ==
  [i \in 1..Len(ObjectEntries(list)) |-> convertSchema(ObjectEntries(list)[i])]

\* allOf / anyOf become and / or over the object-valued entries.
ListsMapped ==
  \A key \in {"allOf", "anyOf"} :
    (trail = <<"convertSchema">> /\ IsLogicalSchema(orig, key) /\ IsSchemaList(Get(orig, key))) =>
      doc = O1(IF key = "allOf" THEN "and" ELSE "or", JArr(ChildPredicates(Get(orig, key))))

\* C26: allOf converts to {"and": [...]} and anyOf to {"or": [...]} with
\* one child per object-valued entry in entry order (boolean entries are
\* dropped); an object-valued `not` converts to {"!": [child]}, whose
\* argument is a one-element array, so that the logic -> schema convert
\* turns it back into a `not` schema.
C26_LogicalMapping ==
  /\ ListsMapped
  /\ (trail = <<"convertSchema">> /\ IsLogicalSchema(orig, "not") /\ IsObj(Get(orig, "not"))) =>
        doc = O1("!", JArr(<<convertSchema(Get(orig, "not"))>>))
  /\ (trail = <<"convertSchema", "convert">> /\ IsLogicalSchema(orig, "not")
       /\ IsObj(Get(orig, "not"))) =>
        (IsObj(doc) /\ KeySet(doc) = {"not"})

\* -- C27 ---------------------------------------------------------------------

IsTwoOperandBetween(j) ==
  /\ IsRangeLeaf(j, 2)
  /\ KeyOf(j) = "between"
  /\ SimpleField(ArgOf(j)[2][1])

\* C27: in every copy of the converter {"between": [{var: f}, v]} converts
\* to the schema of {">=": [{var: f}, v]}, a leaf with only minimum = v
\* on the field f.
C27_TwoOperandBetween ==
  (trail \in FirstConversion /\ IsTwoOperandBetween(orig)) =>
    LET a == ArgOf(orig)[2]
    IN doc = O1("properties", O1(ArgOf(a[1])[2],
                 JObj(<< <<"type", JStr("number")>>, <<"minimum", a[2]>> >>)))

\* -- C28 ---------------------------------------------------------------------

\* Every and / or node of a predicate has at least one child and every !
\* node exactly one (its argument, or the one element of its argument).
RECURSIVE ArityHolds(_)
ArityHolds(j) ==
  CASE IsArr(j) -> \A i \in 1..Len(j[2]) : ArityHolds(j[2][i])
    [] IsObj(j) ->
         \A i \in 1..Len(j[2]) :
           LET k == j[2][i][1]
               v == j[2][i][2]
           IN /\ k \in {"and", "or"} => (IsArr(v) /\ Len(v[2]) >= 1)
              /\ k = "!" => (IsObj(v) \/ (IsArr(v) /\ Len(v[2]) = 1))
              /\ ArityHolds(v)
    [] OTHER -> TRUE

\* C28: for every input schema, `properties: {}`, `allOf: []` and lists of
\* boolean entries included, every and / or node the schema -> logic convert
\* emits has at least one child and every ! node exactly one.
C28_LogicalArity ==
  (trail = <<"convertSchema">> /\ kind = "logic") => ArityHolds(doc)

\* -- C29 ---------------------------------------------------------------------

RoundTripOperators ==
  {"==", "!=", ">", ">=", "<", "<=", "between", "in", "notIn", "startsWith", "endsWith"}

\* A rule over the round-trip operators whose value has the operator's
\* form: two bounds for between, a list for in / notIn, a string for the
\* anchors.
IsRoundTripRule(rule) ==
  LET operator == Get(rule, "operator")
      value == Get(rule, "value")
  IN /\ \E op \in RoundTripOperators : operator = JStr(op)
     /\ operator = JStr("between") => (IsArr(value) /\ Len(value[2]) = 2)
     /\ operator \in {JStr("in"), JStr("notIn")} => IsArr(value)
     /\ operator \in {JStr("startsWith"), JStr("endsWith")} => IsStr(value)

IsRoundTripGroup(query) ==
  /\ HasRules(query)
  /\ Get(query, "combinator") \in {JStr("and"), JStr("or")}
  /\ ~Has(query, "not")
  /\ \A i \in 1..Len(RulesOf(query)) : IsRoundTripRule(RulesOf(query)[i])

SameRules(query, result) ==
  /\ HasRules(result)
  /\ Get(result, "combinator") = Get(query, "combinator")
  /\ Len(RulesOf(result)) = Len(RulesOf(query))
  /\ \A i \in 1..Len(RulesOf(query)) :
       \A k \in {"field", "operator", "value"} :
         Get(RulesOf(result)[i], k) = Get(RulesOf(query)[i], k)

\* C29: for every group q with combinator and / or over the round-trip
\* operators, the empty group with combinator or included,
\* transformJsonSchemaToRules(buildFieldJsonSchema(parent, q)) has q's
\* combinator and one rule per rule of q with the same field, operator and
\* value.
C29_FlatRuleRoundTrip ==
  (trail = <<"buildFieldJsonSchema", "transformJsonSchemaToRules">> /\ IsRoundTripGroup(orig))
    => SameRules(orig, doc)

\* -- C30 ---------------------------------------------------------------------

\* Two outcomes agree: both are exceptions, or they are equal schemas.
Agree(a, b) == (IsErr(a) /\ IsErr(b)) \/ a = b

\* C30: for every input the class's convert and the module-level convert
\* both raise or return equal schemas: for the alias keys, ! / not with a
\* non-array argument, the 2-element between, string and null inputs, and
\* var with a non-string path.
C30_CopiesAgree ==
  /\ trail = <<"convert">> => Agree(doc, JsonLogicToSchema_convert(orig))
  /\ trail = <<"JsonLogicToSchema.convert">> => Agree(doc, convert(orig))

====
